---- MODULE Spec2Model ----
(***************************************************************************)
(* Model of the role-context server: the trigger index and detector        *)
(* (app/services/trigger_service.py), the context session manager          *)
(* (app/services/context_switching_service.py), the role registry and the  *)
(* query pipeline (app/services/role_service.py) and the memory store      *)
(* (app/services/memory_service.py).                                       *)
(*                                                                         *)
(* Text is modelled at the level of word tokens: a query, a role name and  *)
(* a keyword of a pattern are sequences of tokens; the patterns of the     *)
(* code, \b(?:k1|k2|...)\b, match when one of their keywords occurs as a   *)
(* run of whole tokens of the text.                                        *)
(***************************************************************************)
EXTENDS Integers, Sequences, FiniteSets, TLC

VARIABLES roles, role_triggers, active_sessions, memories, calls, now, next_id, ret

vars == <<roles, role_triggers, active_sessions, memories, calls, now, next_id, ret>>

\* Python's None, for optional role ids, queries and reasons.
None == "None"

-----------------------------------------------------------------------------
(* Bounds *)

MaxTriggers == 3
MaxHistory == 2
MaxMemories == 1
MaxTime == 3600
MaxDepth == 3
MaxStored == 3

-----------------------------------------------------------------------------
(* Python dict with insertion order: a sequence of [k, v] entries *)

Keys(d) == {d[i].k : i \in DOMAIN d}

Has(d, key) == \E i \in DOMAIN d : d[i].k = key

Get(d, key) == d[CHOOSE i \in DOMAIN d : d[i].k = key].v

Put(d, key, val) ==
    IF Has(d, key)
    THEN [i \in DOMAIN d |-> IF d[i].k = key THEN [k |-> key, v |-> val] ELSE d[i]]
    ELSE Append(d, [k |-> key, v |-> val])

Del(d, key) == SelectSeq(d, LAMBDA e : e.k # key)

-----------------------------------------------------------------------------
(* Text: str.lower() and re.search(pattern, text, re.IGNORECASE) *)

LowerMap ==
    [t \in {"What", "CEO", "CFO", "CMO", "HR", "Advisor", "Operations", "Sales",
            "Tax", "Finance", "Technology", "Budget", "ROI"} |->
        CASE t = "What" -> "what"
          [] t = "CEO" -> "ceo"
          [] t = "CFO" -> "cfo"
          [] t = "CMO" -> "cmo"
          [] t = "HR" -> "hr"
          [] t = "Advisor" -> "advisor"
          [] t = "Operations" -> "operations"
          [] t = "Sales" -> "sales"
          [] t = "Tax" -> "tax"
          [] t = "Finance" -> "finance"
          [] t = "Technology" -> "technology"
          [] t = "Budget" -> "budget"
          [] t = "ROI" -> "roi"]

Lower(t) == IF t \in DOMAIN LowerMap THEN LowerMap[t] ELSE t

LowerSeq(s) == [i \in DOMAIN s |-> Lower(s[i])]

\* kw occurs in text as a run of whole tokens
Contains(text, kw) ==
    \E i \in 1..(Len(text) - Len(kw) + 1) : SubSeq(text, i, i + Len(kw) - 1) = kw

\* A pattern: a compilable alternation of keywords, or a string re.compile rejects.
Alt(kws) == [valid |-> TRUE, kws |-> kws]

BadPattern == [valid |-> FALSE, kws |-> {}]

\* re.search(pattern, query_lower, re.IGNORECASE) on a compilable pattern
Search(pattern, text) ==
    LET text_lower == LowerSeq(text)
    IN  \E kw \in pattern.kws : Contains(text_lower, LowerSeq(kw))

-----------------------------------------------------------------------------
(* TriggerService.default_domain_triggers *)

default_domain_triggers ==
    [finance |-> <<
        Alt({<<"finance">>, <<"financial">>, <<"money">>, <<"budget">>, <<"invest">>,
             <<"stock">>, <<"market">>, <<"economy">>}),
        Alt({<<"roi">>, <<"revenue">>, <<"profit">>, <<"loss">>,
             <<"balance", "sheet">>, <<"income", "statement">>}) >>,
     technology |-> <<
        Alt({<<"tech">>, <<"technology">>, <<"software">>, <<"hardware">>, <<"code">>,
             <<"program">>, <<"app">>, <<"application">>}),
        Alt({<<"algorithm">>, <<"database">>, <<"server">>, <<"cloud">>, <<"api">>,
             <<"interface">>, <<"frontend">>, <<"backend">>}) >>,
     healthcare |-> <<
        Alt({<<"health">>, <<"medical">>, <<"doctor">>, <<"patient">>, <<"disease">>,
             <<"treatment">>, <<"medicine">>, <<"drug">>}),
        Alt({<<"symptom">>, <<"diagnosis">>, <<"therapy">>, <<"hospital">>, <<"clinic">>,
             <<"prescription">>}) >>,
     marketing |-> <<
        Alt({<<"marketing">>, <<"advertise">>, <<"campaign">>, <<"brand">>, <<"customer">>,
             <<"audience">>, <<"market">>}),
        Alt({<<"seo">>, <<"ppc">>, <<"conversion">>, <<"lead">>, <<"funnel">>,
             <<"engagement">>, <<"retention">>}) >>,
     legal |-> <<
        Alt({<<"legal">>, <<"law">>, <<"contract">>, <<"agreement">>, <<"compliance">>,
             <<"regulation">>, <<"policy">>}),
        Alt({<<"liability">>, <<"lawsuit">>, <<"attorney">>, <<"court">>, <<"judge">>,
             <<"plaintiff">>, <<"defendant">>}) >>,
     education |-> <<
        Alt({<<"education">>, <<"school">>, <<"teach">>, <<"learn">>, <<"student">>,
             <<"course">>, <<"curriculum">>}),
        Alt({<<"lesson">>, <<"assignment">>, <<"exam">>, <<"test">>, <<"grade">>,
             <<"professor">>, <<"instructor">>}) >>,
     creative |-> <<
        Alt({<<"creative">>, <<"design">>, <<"art">>, <<"artist">>, <<"write">>,
             <<"writer">>, <<"create">>, <<"craft">>}),
        Alt({<<"story">>, <<"novel">>, <<"poem">>, <<"script">>, <<"character">>,
             <<"plot">>, <<"theme">>, <<"setting">>}) >>]

-----------------------------------------------------------------------------
(* Roles *)

Role(id, name, domains, is_default) ==
    [id |-> id, name |-> name, description |-> <<"description of", id>>,
     domains |-> domains, is_default |-> is_default,
     parent_role_id |-> None, inherit_memories |-> FALSE,
     memory_access_level |-> "standard", memory_categories |-> <<>>]

\* a custom role with its inheritance and memory-access settings
ChildRole(id, parent_role_id, inherit_memories, memory_access_level, memory_categories) ==
    [id |-> id, name |-> <<id>>, description |-> <<"description of", id>>,
     domains |-> <<>>, is_default |-> FALSE,
     parent_role_id |-> parent_role_id, inherit_memories |-> inherit_memories,
     memory_access_level |-> memory_access_level,
     memory_categories |-> memory_categories]

\* role: Optional[Role] = None
NoRole == ChildRole(None, None, FALSE, "standard", <<>>)

DEFAULT_ROLES == <<
    Role("ceo-advisor", <<"CEO", "Advisor">>,
         <<"business strategy", "leadership", "vision", "growth", "executive decisions">>, TRUE),
    Role("cfo-advisor", <<"CFO", "Advisor">>,
         <<"finance", "accounting", "cash flow", "budgeting", "investment",
           "financial analysis">>, TRUE),
    Role("cmo-advisor", <<"CMO", "Advisor">>,
         <<"marketing", "branding", "customer acquisition", "digital marketing",
           "content strategy">>, TRUE),
    Role("hr-advisor", <<"HR", "Advisor">>,
         <<"human resources", "talent management", "team culture", "hiring",
           "employee engagement">>, TRUE),
    Role("operations-advisor", <<"Operations", "Advisor">>,
         <<"operations", "processes", "efficiency", "systems", "scaling", "productivity">>, TRUE),
    Role("sales-advisor", <<"Sales", "Advisor">>,
         <<"sales", "business development", "customer relationships", "revenue growth",
           "sales processes">>, TRUE) >>

\* A custom role, as a client may create it (POST /roles)
TaxRole == Role("tax-advisor", <<"Tax", "Advisor">>, <<"Finance", "Technology">>, FALSE)

-----------------------------------------------------------------------------
(* TriggerService: the trigger index, role_id -> list of triggers *)

Trigger(pattern, priority, kind, domain) ==
    [pattern |-> pattern, priority |-> priority,
     source |-> [kind |-> kind, domain |-> domain]]

RECURSIVE DomainTriggers_FirstOnly(_)
\* variant: only the first default pattern of a domain is registered
DomainTriggers_FirstOnly(domains) ==
    IF domains = <<>> THEN <<>>
    ELSE LET domain_lower == Lower(Head(domains))
             here == IF domain_lower \in DOMAIN default_domain_triggers
                     THEN <<Trigger(default_domain_triggers[domain_lower][1], 1,
                                    "domain", domain_lower)>>
                     ELSE <<>>
         IN  here \o DomainTriggers_FirstOnly(Tail(domains))

RECURSIVE DomainTriggers(_)
\* the loop over role.domains: two priority-1 triggers per domain with default patterns
DomainTriggers(domains) ==
    IF domains = <<>> THEN <<>>
    ELSE LET domain_lower == Lower(Head(domains))
             here == IF domain_lower \in DOMAIN default_domain_triggers
                     THEN [i \in DOMAIN default_domain_triggers[domain_lower] |->
                              Trigger(default_domain_triggers[domain_lower][i], 1,
                                      "domain", domain_lower)]
                     ELSE <<>>
         IN  here \o DomainTriggers(Tail(domains))

\* "\b" + re.escape(role.name.lower()) + "\b", priority 2
NameTrigger(role) == Trigger(Alt({LowerSeq(role.name)}), 2, "name", None)

\* enumerate(custom_triggers): priority 3 + i, no validation of the pattern
CustomTriggers(custom_triggers) ==
    [j \in DOMAIN custom_triggers |-> Trigger(custom_triggers[j], 3 + (j - 1), "custom", None)]

\* variant: the new entries are appended to the triggers the role already has
register_role_triggers_Appends(rt, role, custom_triggers) ==
    Put(rt, role.id,
        (IF Has(rt, role.id) THEN Get(rt, role.id) ELSE <<>>)
        \o DomainTriggers(role.domains) \o <<NameTrigger(role)>>
        \o CustomTriggers(custom_triggers))

register_role_triggers(rt, role, custom_triggers) ==
    Put(rt, role.id,
        DomainTriggers(role.domains) \o <<NameTrigger(role)>> \o CustomTriggers(custom_triggers))

unregister_role_triggers(rt, role_id) == Del(rt, role_id)

\* the triggers of a role whose pattern matches the query (positions in the list)
MatchedTriggers(triggers, query) ==
    {i \in DOMAIN triggers : Search(triggers[i].pattern, query)}

RECURSIVE RoleScore(_, _)
\* role_score: the sum of the priorities of the matched triggers
RoleScore(triggers, matched) ==
    IF matched = {} THEN 0
    ELSE LET i == CHOOSE x \in matched : TRUE
         IN  triggers[i].priority + RoleScore(triggers, matched \ {i})

\* matched_priorities
MatchedPriorities(triggers, matched) == {triggers[i].priority : i \in matched}

\* variant: the bonus counts the matched triggers, not their distinct priorities
FinalScore_PerTrigger(triggers, matched) ==
    RoleScore(triggers, matched) + Cardinality(matched) * 2

\* final_score = role_score + diversity_bonus
FinalScore(triggers, matched) ==
    RoleScore(triggers, matched) + Cardinality(MatchedPriorities(triggers, matched)) * 2

RECURSIVE ScanRoles(_, _)
\* the loop over role_triggers.items(): one (role_id, final_score) per role that matched
ScanRoles(rt, query) ==
    IF rt = <<>> THEN <<>>
    ELSE LET matched == MatchedTriggers(Head(rt).v, query)
         IN  (IF RoleScore(Head(rt).v, matched) > 0
              THEN << <<Head(rt).k, FinalScore(Head(rt).v, matched)>> >>
              ELSE <<>>)
             \o ScanRoles(Tail(rt), query)

\* position of x in a list sorted by score descending, after its equals (stable)
InsertDesc(sorted, x) ==
    LET n == Cardinality({i \in DOMAIN sorted : sorted[i][2] >= x[2]})
    IN  SubSeq(sorted, 1, n) \o <<x>> \o SubSeq(sorted, n + 1, Len(sorted))

RECURSIVE SortDesc(_)
\* matches.sort(key=score, reverse=True): stable
SortDesc(matches) ==
    IF matches = <<>> THEN <<>>
    ELSE LET sorted == SortDesc(SubSeq(matches, 1, Len(matches) - 1))
         IN  InsertDesc(sorted, matches[Len(matches)])

\* re.search raises re.error on a pattern that does not compile
HasBadPattern(rt) ==
    \E i \in DOMAIN rt : \E j \in DOMAIN rt[i].v : ~rt[i].v[j].pattern.valid

detect_triggers(rt, query) ==
    IF HasBadPattern(rt)
    THEN [raised |-> TRUE, matches |-> <<>>]
    ELSE [raised |-> FALSE, matches |-> SortDesc(ScanRoles(rt, query))]

\* the score of current_role_id in matches, 0 when it is not there
CurrentRoleScore(matches, current_role_id) ==
    IF \E i \in DOMAIN matches : matches[i][1] = current_role_id
    THEN matches[CHOOSE i \in DOMAIN matches : matches[i][1] = current_role_id][2]
    ELSE 0

\* variant: the 0.8 factor left out
Sticky_NoFactor(current_role_score, top_score) == current_role_score >= top_score

\* current_role_score >= top_score * 0.8, on integers
Sticky(current_role_score, top_score) == 10 * current_role_score >= 8 * top_score

get_best_role_for_query(rt, query, current_role_id) ==
    LET d == detect_triggers(rt, query)
        matches == d.matches
    IN  IF d.raised THEN [raised |-> TRUE, role |-> None]
        ELSE IF matches = <<>> THEN [raised |-> FALSE, role |-> None]
        ELSE IF current_role_id # None
                /\ Sticky(CurrentRoleScore(matches, current_role_id), matches[1][2])
             THEN [raised |-> FALSE, role |-> current_role_id]
        ELSE [raised |-> FALSE, role |-> matches[1][1]]

\* returns <<index after the call, result>>
add_custom_trigger(rt, role_id, trigger_pattern, priority) ==
    LET rt1 == IF Has(rt, role_id) THEN rt ELSE Put(rt, role_id, <<>>)
    IN  IF ~trigger_pattern.valid THEN <<rt1, FALSE>>
        ELSE <<Put(rt1, role_id,
                   Append(Get(rt1, role_id),
                          Trigger(trigger_pattern, priority, "custom", None))), TRUE>>

remove_custom_trigger(rt, role_id, trigger_pattern) ==
    IF ~Has(rt, role_id) THEN <<rt, FALSE>>
    ELSE LET triggers == Get(rt, role_id)
             hits == {i \in DOMAIN triggers : /\ triggers[i].pattern = trigger_pattern
                                              /\ triggers[i].source.kind = "custom"}
         IN  IF hits = {} THEN <<rt, FALSE>>
             ELSE LET i == CHOOSE x \in hits : \A y \in hits : x <= y
                  IN  <<Put(rt, role_id,
                            SubSeq(triggers, 1, i - 1) \o SubSeq(triggers, i + 1, Len(triggers))),
                        TRUE>>

get_role_triggers(rt, role_id) == IF Has(rt, role_id) THEN Get(rt, role_id) ELSE <<>>

-----------------------------------------------------------------------------
(* RoleService: the role registry *)

\* RoleService.__init__: the default roles, in the order of DEFAULT_ROLES
RECURSIVE InitialRoles(_)
InitialRoles(defaults) ==
    IF defaults = <<>> THEN <<>>
    ELSE Put(InitialRoles(SubSeq(defaults, 1, Len(defaults) - 1)),
             defaults[Len(defaults)].id, defaults[Len(defaults)])

\* get_role: the role, or HTTPException 404
RoleExists(rs, role_id) == Has(rs, role_id)

RECURSIVE RegisterAll(_, _)
\* initialize_roles: register_role_triggers(role) for every role of the registry
RegisterAll(rt, rs) ==
    IF rs = <<>> THEN rt
    ELSE RegisterAll(register_role_triggers(rt, Head(rs).v, <<>>), Tail(rs))

-----------------------------------------------------------------------------
(* MemoryService: the memory store, role_id -> list of memories *)

\* the absent parent_memory_id; memory ids are 1, 2, ...
NoMemory == 0

memory_ttl_session == 3600
memory_ttl_user == 2592000
memory_ttl_knowledge == 31536000

\* variant: the user and knowledge durations are exchanged
TTL_Swapped(type) ==
    CASE type = "session" -> memory_ttl_session
      [] type = "user" -> memory_ttl_knowledge
      [] type = "knowledge" -> memory_ttl_user

TTL(type) ==
    CASE type = "session" -> memory_ttl_session
      [] type = "user" -> memory_ttl_user
      [] type = "knowledge" -> memory_ttl_knowledge

MemoryCreate(role_id, type, importance, tags, category, shared_with, parent_memory_id) ==
    [role_id |-> role_id, type |-> type, importance |-> importance, tags |-> tags,
     category |-> category, shared_with |-> shared_with,
     parent_memory_id |-> parent_memory_id]

RECURSIVE AddShared_KeepsSharing(_, _, _, _)
\* variant: the copy keeps the shared_with list of the original
AddShared_KeepsSharing(mem, memory, shared_with, id0) ==
    IF shared_with = <<>> THEN mem
    ELSE LET shared_role_id == Head(shared_with)
             mem1 == IF Has(mem, shared_role_id) THEN mem ELSE Put(mem, shared_role_id, <<>>)
             shared_memory == [memory EXCEPT !.id = id0 + 1,
                                             !.role_id = shared_role_id,
                                             !.parent_memory_id = memory.id]
         IN  AddShared_KeepsSharing(
                 Put(mem1, shared_role_id, Append(Get(mem1, shared_role_id), shared_memory)),
                 memory, Tail(shared_with), id0 + 1)

RECURSIVE AddShared(_, _, _, _)
\* the loop over memory.shared_with: one copy per listed role, ids id0+1, id0+2, ...
AddShared(mem, memory, shared_with, id0) ==
    IF shared_with = <<>> THEN mem
    ELSE LET shared_role_id == Head(shared_with)
             mem1 == IF Has(mem, shared_role_id) THEN mem ELSE Put(mem, shared_role_id, <<>>)
             shared_memory == [memory EXCEPT !.id = id0 + 1,
                                             !.role_id = shared_role_id,
                                             !.shared_with = <<>>,
                                             !.parent_memory_id = memory.id]
         IN  AddShared(Put(mem1, shared_role_id, Append(Get(mem1, shared_role_id), shared_memory)),
                       memory, Tail(shared_with), id0 + 1)

\* store_memory at time t; id stands for the fresh uuid of the memory
store_memory(mem, memory_create, embedding, t, id) ==
    LET memory == [id |-> id,
                   role_id |-> memory_create.role_id,
                   type |-> memory_create.type,
                   importance |-> memory_create.importance,
                   embedding |-> embedding,
                   created_at |-> t,
                   expires_at |-> t + TTL(memory_create.type),
                   tags |-> memory_create.tags,
                   category |-> memory_create.category,
                   shared_with |-> memory_create.shared_with,
                   parent_memory_id |-> memory_create.parent_memory_id]
        mem1 == IF Has(mem, memory.role_id) THEN mem ELSE Put(mem, memory.role_id, <<>>)
        mem2 == Put(mem1, memory.role_id, Append(Get(mem1, memory.role_id), memory))
    IN  AddShared(mem2, memory, memory.shared_with, id)

\* variant: the comparison is the wrong way round
PurgeExpired_Inverted(mem, role_id, t) ==
    IF Has(mem, role_id)
    THEN Put(mem, role_id, SelectSeq(Get(mem, role_id), LAMBDA m : m.expires_at <= t))
    ELSE mem

\* the lazy purge of get_memories_by_role_id: the partition keeps its valid memories
PurgeExpired(mem, role_id, t) ==
    IF Has(mem, role_id)
    THEN Put(mem, role_id, SelectSeq(Get(mem, role_id), LAMBDA m : m.expires_at > t))
    ELSE mem

\* the store after get_relevant_memories(role_id, query, embedding, limit=5)
AfterGetRelevant(mem, role_id, embedding, t) ==
    IF embedding = <<>> THEN mem ELSE PurgeExpired(mem, role_id, t)

\* variant: the share copies of a removed memory are removed with it
clear_memories_by_role_id_WithCopies(mem, role_id, memory_type, category, tags, shared_only) ==
    IF ~Has(mem, role_id) THEN mem
    ELSE LET m0 == Get(mem, role_id)
             m1 == IF memory_type # None
                   THEN SelectSeq(m0, LAMBDA m : m.type # memory_type) ELSE m0
             m2 == IF category # None
                   THEN SelectSeq(m1, LAMBDA m : m.category # category) ELSE m1
             m3 == IF tags # <<>>
                   THEN SelectSeq(m2, LAMBDA m :
                            ~\E i \in DOMAIN tags : \E j \in DOMAIN m.tags : tags[i] = m.tags[j])
                   ELSE m2
             m4 == IF shared_only
                   THEN SelectSeq(m3, LAMBDA m : m.parent_memory_id = NoMemory) ELSE m3
             removed == {m0[i].id : i \in {j \in DOMAIN m0 :
                                              ~\E l \in DOMAIN m4 : m4[l] = m0[j]}}
             mem1 == Put(mem, role_id, m4)
         IN  [i \in DOMAIN mem1 |->
                 [k |-> mem1[i].k,
                  v |-> SelectSeq(mem1[i].v,
                                  LAMBDA m : m.parent_memory_id \notin removed)]]

\* clear_memories_by_role_id: the filters select what is dropped
clear_memories_by_role_id(mem, role_id, memory_type, category, tags, shared_only) ==
    IF ~Has(mem, role_id) THEN mem
    ELSE LET m0 == Get(mem, role_id)
             m1 == IF memory_type # None
                   THEN SelectSeq(m0, LAMBDA m : m.type # memory_type) ELSE m0
             m2 == IF category # None
                   THEN SelectSeq(m1, LAMBDA m : m.category # category) ELSE m1
             m3 == IF tags # <<>>
                   THEN SelectSeq(m2, LAMBDA m :
                            ~\E i \in DOMAIN tags : \E j \in DOMAIN m.tags : tags[i] = m.tags[j])
                   ELSE m2
             m4 == IF shared_only
                   THEN SelectSeq(m3, LAMBDA m : m.parent_memory_id = NoMemory) ELSE m3
         IN  Put(mem, role_id, m4)

\* x in list
InSeq(x, seq) == \E i \in DOMAIN seq : seq[i] = x

\* the memories of a partition, [] when the role has none
Partition(mem, role_id) == IF Has(mem, role_id) THEN Get(mem, role_id) ELSE <<>>

\* variant: the access level is not applied to the parent's memories
AccessFilter_NoLevel(role, parent_memories) ==
    IF role.memory_categories # <<>>
    THEN SelectSeq(parent_memories, LAMBDA m :
             m.category = None \/ InSeq(m.category, role.memory_categories))
    ELSE parent_memories

\* the down-filter of the parent's memories by the child's access level and categories
AccessFilter(role, parent_memories) ==
    LET by_level ==
            IF role.memory_access_level = "standard"
            THEN SelectSeq(parent_memories, LAMBDA m : m.type = "knowledge")
            ELSE IF role.memory_access_level = "elevated"
            THEN SelectSeq(parent_memories, LAMBDA m : m.type \in {"knowledge", "user"})
            ELSE parent_memories
    IN  IF role.memory_categories # <<>>
        THEN SelectSeq(by_level, LAMBDA m :
                 m.category = None \/ InSeq(m.category, role.memory_categories))
        ELSE by_level

\* any(tag in m.tags for tag in tags)
AnyTag(tags, m) == \E i \in DOMAIN tags : InSeq(tags[i], m.tags)

\* the type, category, tag and include_shared filters on the collected memories
ApplyFilters(all_memories, memory_type, category, tags, include_shared) ==
    LET f1 == IF memory_type # None
              THEN SelectSeq(all_memories, LAMBDA m : m.type = memory_type)
              ELSE all_memories
        f2 == IF category # None
              THEN SelectSeq(f1, LAMBDA m : m.category = category) ELSE f1
        f3 == IF tags # <<>> THEN SelectSeq(f2, LAMBDA m : AnyTag(tags, m)) ELSE f2
    IN  IF ~include_shared
        THEN SelectSeq(f3, LAMBDA m : m.parent_memory_id = NoMemory) ELSE f3

\* unique_memories: the first memory of every id, in order of first occurrence
Dedupe(ms) ==
    LET keep == {i \in DOMAIN ms : \A j \in 1..(i - 1) : ms[j].id # ms[i].id}
        F[i \in 0..Len(ms)] ==
            IF i = 0 THEN <<>>
            ELSE IF i \in keep THEN Append(F[i - 1], ms[i]) ELSE F[i - 1]
    IN  F[Len(ms)]

\* variant: the recursive call is given the parent's role
RecursiveRole_Lookup(rs, parent_role_id) ==
    IF Has(rs, parent_role_id) THEN Get(rs, parent_role_id) ELSE NoRole

\* the role argument of the recursive call: none is passed
RecursiveRole(rs, parent_role_id) == NoRole

RECURSIVE get_memories_by_role_id(_, _, _, _, _, _, _, _, _, _, _)
\* get_memories_by_role_id at time t; depth is the height of the call stack, and
\* a call deeper than MaxDepth raises RecursionError
get_memories_by_role_id(mem, rs, role_id, memory_type, category, tags, include_shared, include_inherited, role, t, depth) ==
    IF depth > MaxDepth
    THEN [error |-> "RecursionError", result |-> <<>>, mem |-> mem]
    ELSE LET mem1 == PurgeExpired(mem, role_id, t)
             own == Partition(mem1, role_id)
             inherits == /\ include_inherited
                         /\ role.id # None
                         /\ role.inherit_memories
                         /\ role.parent_role_id # None
             parent == IF inherits
                       THEN get_memories_by_role_id(mem1, rs, role.parent_role_id,
                                memory_type, category, tags, include_shared, TRUE,
                                RecursiveRole(rs, role.parent_role_id), t, depth + 1)
                       ELSE [error |-> None, result |-> <<>>, mem |-> mem1]
         IN  IF parent.error # None THEN parent
             ELSE [error |-> None,
                   result |-> Dedupe(ApplyFilters(
                                  own \o (IF inherits
                                          THEN AccessFilter(role, parent.result)
                                          ELSE <<>>),
                                  memory_type, category, tags, include_shared)),
                   mem |-> parent.mem]

RECURSIVE CollectMemories(_, _, _, _, _, _, _)
\* the loop over roles_to_search: get_memories_by_role_id(r_id, category, tags,
\* include_shared) for every role, each call purging the partition it reads
CollectMemories(mem, rs, roles_to_search, category, tags, include_shared, t) ==
    IF roles_to_search = <<>> THEN [all |-> <<>>, mem |-> mem]
    ELSE LET here == get_memories_by_role_id(mem, rs, Head(roles_to_search), None,
                         category, tags, include_shared, TRUE, NoRole, t, 1)
             rest == CollectMemories(here.mem, rs, Tail(roles_to_search), category,
                                     tags, include_shared, t)
         IN  [all |-> here.result \o rest.all, mem |-> rest.mem]

\* np.dot
Dot(a, b) == LET F[i \in 0..Len(a)] == IF i = 0 THEN 0 ELSE F[i - 1] + a[i] * b[i]
             IN  F[Len(a)]

\* np.linalg.norm, for the embeddings of the model (their norms are integers)
Norm(a) == CHOOSE n \in 0..(Dot(a, a)) : n * n = Dot(a, a)

\* importance_multiplier, in tenths
ImportanceMultiplier(importance) ==
    CASE importance = "low" -> 8
      [] importance = "medium" -> 10
      [] importance = "high" -> 12
      [] OTHER -> 10

\* recency_factor = max(0.8, 1.0 - (time_diff / (30 * 24 * 60 * 60)) * 0.2), in
\* units of 1/7200 (time_diff is a multiple of 1800 seconds)
RecencyFactor(time_diff) ==
    LET decayed == 7200 - (time_diff \div 1800)
    IN  IF decayed > 5760 THEN decayed ELSE 5760

\* tag_factor = 1.0 + (matching_tags / len(tags)) * 0.2, in units of 1/(10 * len(tags))
TagFactor(tags, m) ==
    IF tags # <<>> /\ m.tags # <<>>
    THEN 10 * Len(tags) + 2 * Cardinality({i \in DOMAIN tags : InSeq(tags[i], m.tags)})
    ELSE IF tags # <<>> THEN 10 * Len(tags) ELSE 10

\* variant: the importance of the memory is ignored
AdjustedScore_NoImportance(m, embedding, tags, t) ==
    [num |-> Dot(m.embedding, embedding) * 10
               * RecencyFactor(t - m.created_at) * TagFactor(tags, m),
     den |-> Norm(m.embedding)]

\* adjusted_score = similarity * importance_multiplier * recency_factor * tag_factor,
\* as the fraction num / den up to a positive factor that is the same for every
\* memory scored in one call (the norm of the query and the units above)
AdjustedScore(m, embedding, tags, t) ==
    [num |-> Dot(m.embedding, embedding) * ImportanceMultiplier(m.importance)
               * RecencyFactor(t - m.created_at) * TagFactor(tags, m),
     den |-> Norm(m.embedding)]

\* score a > score b
Higher(a, b) == a.num * b.den > b.num * a.den

\* list.sort(key=score, reverse=True) inserts x after the entries that are not lower
InsertByScore(sorted, x) ==
    LET k == Cardinality({i \in DOMAIN sorted : ~Higher(x.score, sorted[i].score)})
    IN  SubSeq(sorted, 1, k) \o <<x>> \o SubSeq(sorted, k + 1, Len(sorted))

\* scores.sort(key=lambda x: x[1], reverse=True): stable, descending
SortByScore(scores) ==
    LET F[i \in 0..Len(scores)] ==
            IF i = 0 THEN <<>> ELSE InsertByScore(F[i - 1], scores[i])
    IN  F[Len(scores)]

\* variant: the slice takes one entry more
Slice_OneMore(seq, limit) ==
    IF limit >= 0
    THEN SubSeq(seq, 1, IF limit + 1 < Len(seq) THEN limit + 1 ELSE Len(seq))
    ELSE SubSeq(seq, 1, IF Len(seq) + limit > 0 THEN Len(seq) + limit ELSE 0)

\* seq[:limit]: a negative limit counts from the end
Slice(seq, limit) ==
    IF limit >= 0
    THEN SubSeq(seq, 1, IF limit < Len(seq) THEN limit ELSE Len(seq))
    ELSE SubSeq(seq, 1, IF Len(seq) + limit > 0 THEN Len(seq) + limit ELSE 0)

\* variant: the listed roles are searched together with role_id
RolesToSearch_AlsoOwn(mem, role_id, cross_role, related_role_ids) ==
    IF cross_role THEN [i \in DOMAIN mem |-> mem[i].k]
    ELSE IF related_role_ids # <<>>
    THEN SelectSeq(<<role_id>> \o related_role_ids, LAMBDA r : Has(mem, r))
    ELSE IF Has(mem, role_id) THEN <<role_id>> ELSE <<>>

\* roles_to_search: every partition, the listed roles that have one, or role_id
RolesToSearch(mem, role_id, cross_role, related_role_ids) ==
    IF cross_role THEN [i \in DOMAIN mem |-> mem[i].k]
    ELSE IF related_role_ids # <<>>
    THEN SelectSeq(related_role_ids, LAMBDA r : Has(mem, r))
    ELSE IF Has(mem, role_id) THEN <<role_id>> ELSE <<>>

\* get_relevant_memories at time t: the memories returned, their scores, and the store
get_relevant_memories(mem, rs, role_id, embedding, limit, category, tags, include_shared, cross_role, related_role_ids, t) ==
    IF embedding = <<>> THEN [result |-> <<>>, scores |-> <<>>, mem |-> mem]
    ELSE LET roles_to_search == RolesToSearch(mem, role_id, cross_role, related_role_ids)
             c == CollectMemories(mem, rs, roles_to_search, category, tags,
                                  include_shared, t)
             memories_with_embeddings == SelectSeq(c.all, LAMBDA m : m.embedding # <<>>)
             scores == SortByScore([i \in DOMAIN memories_with_embeddings |->
                           [memory |-> memories_with_embeddings[i],
                            score |-> AdjustedScore(memories_with_embeddings[i],
                                                    embedding, tags, t)]])
             top == Slice(scores, limit)
         IN  [result |-> [i \in DOMAIN top |-> top[i].memory],
              scores |-> [i \in DOMAIN top |-> top[i].score],
              mem |-> c.mem]

\* what the provider's embeddings call does: it raises (no OpenAI provider, or the
\* request fails) or returns a vector
ProviderRaised == [raised |-> TRUE, embedding |-> <<>>]

ProviderReturned(embedding) == [raised |-> FALSE, embedding |-> embedding]

\* variant: a failing provider is answered with a default vector
create_embedding_Default(response) ==
    IF response.raised THEN <<1, 0>> ELSE response.embedding

\* AIProcessor.create_embedding: every exception is caught and [] returned
create_embedding(response) ==
    IF response.raised THEN <<>> ELSE response.embedding

\* POST /memories/{role_id}/share: the memory is looked up among the memories of
\* role_id, its shared_with list is extended in place with the new targets, and
\* the memory is stored again with store_memory; id stands for the fresh uuid
share_memory(mem, rs, role_id, memory_id, target_role_ids, t, id) ==
    LET r == get_memories_by_role_id(mem, rs, role_id, None, None, <<>>, TRUE, TRUE,
                                     NoRole, t, 1)
        memories_ == r.result
        found == {i \in DOMAIN memories_ : memories_[i].id = memory_id}
    IN  IF found = {} THEN [error |-> "NotFound", mem |-> r.mem, shared_with |-> <<>>]
        ELSE LET memory_to_share == memories_[CHOOSE i \in found : \A j \in found : i <= j]
                 shared_with == memory_to_share.shared_with
                                \o SelectSeq(target_role_ids, LAMBDA rid :
                                       ~InSeq(rid, memory_to_share.shared_with))
                 own == Get(r.mem, role_id)
                 mem1 == Put(r.mem, role_id,
                             [i \in DOMAIN own |->
                                 IF own[i].id = memory_id
                                 THEN [own[i] EXCEPT !.shared_with = shared_with]
                                 ELSE own[i]])
                 memory_create == MemoryCreate(memory_to_share.role_id,
                                      memory_to_share.type, memory_to_share.importance,
                                      memory_to_share.tags, memory_to_share.category,
                                      shared_with, memory_to_share.parent_memory_id)
             IN  [error |-> None,
                  mem |-> store_memory(mem1, memory_create, memory_to_share.embedding,
                                       t, id),
                  shared_with |-> shared_with]

\* role_service.get_role_by_id: RoleService defines no such method (it has get_roles
\* and get_role), so the attribute lookup raises AttributeError
get_role_by_id(rs, role_id) == [error |-> "AttributeError", role |-> NoRole]

\* variant: the walk continues to the parent whatever inherit_memories says
NextInChain_IgnoresFlag(role) == role.parent_role_id

\* current_role_id = role.parent_role_id if role.inherit_memories else None
NextInChain(role) == IF role.inherit_memories THEN role.parent_role_id ELSE None

RECURSIVE ChainLoop(_, _, _, _)
\* the while loop of get_role_inheritance_chain
ChainLoop(rs, current_role_id, visited_roles, inheritance_chain) ==
    IF current_role_id = None \/ current_role_id \in visited_roles
    THEN [error |-> None, result |-> inheritance_chain]
    ELSE LET r == get_role_by_id(rs, current_role_id)
         IN  IF r.error # None THEN [error |-> r.error, result |-> <<>>]
             ELSE IF r.role.id = None THEN [error |-> None, result |-> inheritance_chain]
             ELSE ChainLoop(rs, NextInChain(r.role),
                            visited_roles \cup {current_role_id},
                            Append(inheritance_chain, r.role))

get_role_inheritance_chain(rs, role_id) == ChainLoop(rs, role_id, {}, <<>>)

\* get_related_roles: the set of related role ids
get_related_roles(mem, rs, role_id) ==
    LET r == get_role_by_id(rs, role_id)
        role == r.role
        parent == IF role.inherit_memories /\ role.parent_role_id # None
                  THEN {role.parent_role_id} ELSE {}
        children == {rs[i].v.id : i \in {j \in DOMAIN rs :
                        rs[j].v.parent_role_id = role_id /\ rs[j].v.inherit_memories}}
        own == Partition(mem, role_id)
        shared_out == UNION {{own[k].shared_with[l] : l \in DOMAIN own[k].shared_with} :
                             k \in DOMAIN own}
        shared_in == {mem[i].k : i \in {j \in DOMAIN mem :
                        /\ mem[j].k # role_id
                        /\ \E k \in DOMAIN mem[j].v : InSeq(role_id, mem[j].v[k].shared_with)}}
    IN  IF r.error # None THEN [error |-> r.error, result |-> {}]
        ELSE IF role.id = None THEN [error |-> None, result |-> {}]
        ELSE [error |-> None,
              result |-> (parent \cup children \cup shared_out \cup shared_in) \ {role_id}]

\* role_service.get_role, as a caller uses it to pass role=
RoleOf(rs, role_id) == IF Has(rs, role_id) THEN Get(rs, role_id) ELSE NoRole

\* an optional argument: <<>> when the caller left it out, <<value>> otherwise
Nothing == <<>>

Some(value) == <<value>>

\* the role with the fields of update_data set (setattr for every key)
ApplyUpdate(role, update_data) ==
    [f \in DOMAIN role |-> IF Has(update_data, f) THEN Get(update_data, f) ELSE role[f]]

\* update_role with role_update.dict(exclude_unset=True) = update_data; the
\* updates of the routes modelled here set no tone
update_role(rs, role_id, update_data) ==
    IF ~Has(rs, role_id) THEN [error |-> "NotFound", roles |-> rs]
    ELSE IF Get(rs, role_id).is_default THEN [error |-> "Forbidden", roles |-> rs]
    ELSE [error |-> None,
          roles |-> Put(rs, role_id, ApplyUpdate(Get(rs, role_id), update_data))]

\* PATCH /roles/{role_id}/memory-access: only the provided fields are updated
update_memory_access(rs, role_id, inherit_memories, memory_access_level, memory_categories) ==
    LET update_data ==
            (IF inherit_memories # Nothing
             THEN <<[k |-> "inherit_memories", v |-> inherit_memories[1]]>> ELSE <<>>)
            \o (IF memory_access_level # Nothing
                THEN <<[k |-> "memory_access_level", v |-> memory_access_level[1]]>>
                ELSE <<>>)
            \o (IF memory_categories # Nothing
                THEN <<[k |-> "memory_categories", v |-> memory_categories[1]]>>
                ELSE <<>>)
    IN  update_role(rs, role_id, update_data)

\* variant: the parent is set without the walk over the inheritance chain
set_parent_role_NoCheck(rs, role_id, parent_id) ==
    IF ~RoleExists(rs, parent_id) THEN [error |-> "NotFound", roles |-> rs]
    ELSE update_role(rs, role_id, <<[k |-> "parent_role_id", v |-> parent_id]>>)

\* PATCH /roles/{role_id}/parent-role/{parent_id}
set_parent_role(rs, role_id, parent_id) ==
    IF ~RoleExists(rs, parent_id) THEN [error |-> "NotFound", roles |-> rs]
    ELSE LET inheritance_chain == get_role_inheritance_chain(rs, parent_id)
         IN  IF inheritance_chain.error # None
             THEN [error |-> inheritance_chain.error, roles |-> rs]
             ELSE IF \E i \in DOMAIN inheritance_chain.result :
                         inheritance_chain.result[i].id = role_id
             THEN [error |-> "Circular inheritance detected", roles |-> rs]
             ELSE update_role(rs, role_id, <<[k |-> "parent_role_id", v |-> parent_id]>>)

\* DELETE /roles/{role_id}/parent-role
remove_parent_role(rs, role_id) ==
    update_role(rs, role_id, <<[k |-> "parent_role_id", v |-> None],
                               [k |-> "inherit_memories", v |-> FALSE]>>)

TotalMemories(mem) ==
    Cardinality({<<i, j>> \in (DOMAIN mem) \X (1..MaxMemories + 1) : j <= Len(mem[i].v)})

-----------------------------------------------------------------------------
(* ContextSwitchingService: the session table and the switch decision *)

Session(current_role_id, history, last_switch_reason) ==
    [current_role_id |-> current_role_id, history |-> history,
     last_switch_reason |-> last_switch_reason]

SwitchEvent(from_role_id, to_role_id, reason, query) ==
    [timestamp |-> "now", from_role_id |-> from_role_id, to_role_id |-> to_role_id,
     reason |-> reason, query |-> query]

\* variant: the reason of a new session is left unset
NewSession_NoReason(initial_role_id) == Session(initial_role_id, <<>>, None)

\* create_session: the new entry of the table
NewSession(initial_role_id) == Session(initial_role_id, <<>>, "Initial role selection")

\* Texts are lists of tokens. PARA is the blank line "\n\n"; MARKER is the phrase
\* process_query looks for.
PARA == "<blank line>"

MARKER == "You are switching from the role of"

\* context_switch_info: the transition note (the f-string of lines 128-132)
context_switch_info(old_role, new_role) ==
    <<MARKER>> \o old_role.name \o <<"to">> \o new_role.name
    \o <<"The user's query appears to be more relevant to your expertise as">>
    \o new_role.name
    \o <<"Previous role description:">> \o old_role.description
    \o <<"Your new role description:">> \o new_role.description

\* variant: the caller's instructions are put before the note
MergeInstructions_CustomFirst(info, custom_instructions) ==
    IF custom_instructions # <<>>
    THEN custom_instructions \o <<PARA>> \o info
    ELSE info

\* custom_instructions = context_switch_info + "\n\n" + custom_instructions, or the
\* note alone when the caller gave none
MergeInstructions(info, custom_instructions) ==
    IF custom_instructions # <<>>
    THEN info \o <<PARA>> \o custom_instructions
    ELSE info

\* text.split("\n\n", 1)
SplitPara(text) ==
    LET blank == {i \in DOMAIN text : text[i] = PARA}
    IN  IF blank = {} THEN <<text>>
        ELSE LET i == CHOOSE x \in blank : \A y \in blank : x <= y
             IN  <<SubSeq(text, 1, i - 1), SubSeq(text, i + 1, Len(text))>>

\* "Memory: ..." for each memory, joined by blank lines
MemoryText(ms) == [i \in DOMAIN ms |-> "Memory:"]

\* generate_complete_prompt: the parts of the role, the custom instructions if
\* any, the first ten memories of the role if any
generate_complete_prompt(role, custom_instructions, ms) ==
    <<"system_prompt of", role.id, "Tone:", "Domains of expertise:">> \o role.domains
    \o <<"Instructions:", "instructions of", role.id>>
    \o (IF custom_instructions # <<>>
        THEN <<"Additional Instructions:">> \o custom_instructions ELSE <<>>)
    \o (IF ms # <<>>
        THEN <<"Relevant context from previous interactions:">>
             \o MemoryText(SubSeq(ms, 1, IF Len(ms) < 10 THEN Len(ms) ELSE 10))
        ELSE <<>>)

\* process_query: the system prompt handed to generate_response
SystemPrompt(role, custom_instructions, ms, relevant_memories) ==
    LET switching == custom_instructions # <<>> /\ InSeq(MARKER, custom_instructions)
        parts == SplitPara(custom_instructions)
        info == IF switching THEN parts[1] ELSE <<>>
        rest == IF ~switching THEN custom_instructions
                ELSE IF Len(parts) > 1 THEN parts[2] ELSE <<>>
        system_prompt == generate_complete_prompt(role, rest, ms)
    IN  (IF info # <<>> THEN info \o <<PARA>> \o system_prompt ELSE system_prompt)
        \o (IF relevant_memories # <<>>
            THEN <<"Relevant memories for this query:">> \o MemoryText(relevant_memories)
            ELSE <<>>)

\* variant: a forced role always counts as a switch
DecideRole_ForcedAlwaysSwitch(rt, current_role_id, query, force_role_id) ==
    IF force_role_id = None
    THEN LET detected == get_best_role_for_query(rt, query, current_role_id)
         IN  IF detected.raised
             THEN [raised |-> TRUE, new_role_id |-> current_role_id,
                   context_switch |-> FALSE, switch_reason |-> None]
             ELSE IF detected.role # None /\ detected.role # current_role_id
             THEN [raised |-> FALSE, new_role_id |-> detected.role,
                   context_switch |-> TRUE,
                   switch_reason |-> "Detected triggers for a different role"]
             ELSE [raised |-> FALSE, new_role_id |-> current_role_id,
                   context_switch |-> FALSE, switch_reason |-> None]
    ELSE [raised |-> FALSE, new_role_id |-> force_role_id,
          context_switch |-> TRUE,
          switch_reason |-> "Manually switched to a different role"]

\* process_query_with_context_switching, the decision: the role to use, whether
\* this is a switch and why
DecideRole(rt, current_role_id, query, force_role_id) ==
    IF force_role_id = None
    THEN LET detected == get_best_role_for_query(rt, query, current_role_id)
         IN  IF detected.raised
             THEN [raised |-> TRUE, new_role_id |-> current_role_id,
                   context_switch |-> FALSE, switch_reason |-> None]
             ELSE IF detected.role # None /\ detected.role # current_role_id
             THEN [raised |-> FALSE, new_role_id |-> detected.role,
                   context_switch |-> TRUE,
                   switch_reason |-> "Detected triggers for a different role"]
             ELSE [raised |-> FALSE, new_role_id |-> current_role_id,
                   context_switch |-> FALSE, switch_reason |-> None]
    ELSE [raised |-> FALSE, new_role_id |-> force_role_id,
          context_switch |-> (force_role_id # current_role_id),
          switch_reason |-> IF force_role_id # current_role_id
                            THEN "Manually switched to a different role" ELSE None]

\* variant: the event is recorded but last_switch_reason keeps its old value
ApplySwitch_StaleReason(session, new_role_id, reason, query) ==
    [current_role_id |-> new_role_id,
     history |-> Append(session.history,
                        SwitchEvent(session.current_role_id, new_role_id, reason, query)),
     last_switch_reason |-> session.last_switch_reason]

\* the session after a switch: one event appended, the role and the reason set
ApplySwitch(session, new_role_id, reason, query) ==
    [current_role_id |-> new_role_id,
     history |-> Append(session.history,
                        SwitchEvent(session.current_role_id, new_role_id, reason, query)),
     last_switch_reason |-> reason]

\* variant: close_session reports success without deleting the entry
RemoveSession_Keeps(sessions, session_id) == sessions

\* del active_sessions[session_id]
RemoveSession(sessions, session_id) ==
    [s \in (DOMAIN sessions) \ {session_id} |-> sessions[s]]

\* active_sessions[session_id] = session
SetSession(sessions, session_id, session) ==
    [s \in (DOMAIN sessions) \cup {session_id} |->
        IF s = session_id THEN session ELSE sessions[s]]

\* variant: the role is not looked up before the session is created
create_session_NoLookup(rs, sessions, session_id, initial_role_id) ==
    [error |-> None, sessions |-> SetSession(sessions, session_id, NewSession(initial_role_id))]

\* create_session: get_role raises for an unknown role, else the entry is (re)written
create_session(rs, sessions, session_id, initial_role_id) ==
    IF ~RoleExists(rs, initial_role_id)
    THEN [error |-> "NotFound", sessions |-> sessions]
    ELSE [error |-> None,
          sessions |-> SetSession(sessions, session_id, NewSession(initial_role_id))]

\* variant: no early return when the session already uses the role
manually_switch_context_NoEarlyReturn(rs, sessions, session_id, new_role_id, reason) ==
    IF session_id \notin DOMAIN sessions
    THEN [error |-> "NotFound", switched |-> FALSE, sessions |-> sessions]
    ELSE IF ~RoleExists(rs, new_role_id)
    THEN [error |-> "NotFound", switched |-> FALSE, sessions |-> sessions]
    ELSE [error |-> None, switched |-> TRUE,
          sessions |-> SetSession(sessions, session_id,
                                  ApplySwitch(sessions[session_id], new_role_id, reason, None))]

\* manually_switch_context
manually_switch_context(rs, sessions, session_id, new_role_id, reason) ==
    IF session_id \notin DOMAIN sessions
    THEN [error |-> "NotFound", switched |-> FALSE, sessions |-> sessions]
    ELSE IF sessions[session_id].current_role_id = new_role_id
    THEN [error |-> None, switched |-> FALSE, sessions |-> sessions]
    ELSE IF ~RoleExists(rs, new_role_id)
    THEN [error |-> "NotFound", switched |-> FALSE, sessions |-> sessions]
    ELSE [error |-> None, switched |-> TRUE,
          sessions |-> SetSession(sessions, session_id,
                                  ApplySwitch(sessions[session_id], new_role_id, reason, None))]

-----------------------------------------------------------------------------
(* Inputs *)

QueryText ==
    [pnl    |-> <<"What", "s", "our", "profit", "and", "loss", "this", "quarter">>,
     market |-> <<"is", "the", "stock", "market", "hurting", "our", "campaign">>,
     both   |-> <<"CFO", "Advisor", "CMO", "Advisor", "Budget", "profit", "marketing">>,
     ceotax |-> <<"CEO", "Advisor", "on", "tax">>,
     names  |-> <<"CEO", "Advisor", "and", "CFO", "Advisor">>,
     hello  |-> <<"hello", "there">>]

Queries == DOMAIN QueryText

PatTax == Alt({<<"tax">>})

PatQuarter == Alt({<<"quarter">>, <<"Budget">>})

SessionIds == {"s1", "s2"}

CallIds == {"c1"}

Reasons == {"Manual switch by user", "user asked for finance"}

Embeddings == {<<>>, <<1, 0>>}

TickSteps == {3600}

Idle == [pc |-> "idle"]

-----------------------------------------------------------------------------
(* State after construction: RoleService.__init__, TriggerService.__init__,    *)
(* ContextSwitchingService.__init__, MemoryService.__init__                  *)

Init ==
    /\ roles = InitialRoles(DEFAULT_ROLES)
    /\ role_triggers = <<>>
    /\ active_sessions = [s \in {} |-> NewSession(None)]
    /\ memories = <<>>
    /\ calls = [c \in CallIds |-> Idle]
    /\ now = 0
    /\ next_id = 1
    /\ ret = [op |-> "init"]

-----------------------------------------------------------------------------
(* Trigger operations *)

InitializeRoles ==
    /\ role_triggers' = RegisterAll(role_triggers, roles)
    /\ ret' = [op |-> "initialize_roles"]
    /\ UNCHANGED <<roles, active_sessions, memories, calls, now, next_id>>

RegisterRoleTriggers(role, custom_triggers) ==
    /\ role_triggers' = register_role_triggers(role_triggers, role, custom_triggers)
    /\ ret' = [op |-> "register_role_triggers", role_id |-> role.id, role |-> role,
               custom_triggers |-> custom_triggers]
    /\ UNCHANGED <<roles, active_sessions, memories, calls, now, next_id>>

UnregisterRoleTriggers(role_id) ==
    /\ role_triggers' = unregister_role_triggers(role_triggers, role_id)
    /\ ret' = [op |-> "unregister_role_triggers", role_id |-> role_id]
    /\ UNCHANGED <<roles, active_sessions, memories, calls, now, next_id>>

AddCustomTrigger(role_id, trigger_pattern, priority) ==
    /\ Len(get_role_triggers(role_triggers, role_id)) < MaxTriggers
    /\ LET r == add_custom_trigger(role_triggers, role_id, trigger_pattern, priority)
       IN  /\ role_triggers' = r[1]
           /\ ret' = [op |-> "add_custom_trigger", role_id |-> role_id,
                      pattern |-> trigger_pattern, priority |-> priority, result |-> r[2]]
    /\ UNCHANGED <<roles, active_sessions, memories, calls, now, next_id>>

RemoveCustomTrigger(role_id, trigger_pattern) ==
    /\ LET r == remove_custom_trigger(role_triggers, role_id, trigger_pattern)
       IN  /\ role_triggers' = r[1]
           /\ ret' = [op |-> "remove_custom_trigger", role_id |-> role_id,
                      pattern |-> trigger_pattern, result |-> r[2]]
    /\ UNCHANGED <<roles, active_sessions, memories, calls, now, next_id>>

GetRoleTriggers(role_id) ==
    /\ ret' = [op |-> "get_role_triggers", role_id |-> role_id,
               result |-> get_role_triggers(role_triggers, role_id)]
    /\ UNCHANGED <<roles, role_triggers, active_sessions, memories, calls, now, next_id>>

DetectTriggers(query) ==
    /\ LET d == detect_triggers(role_triggers, QueryText[query])
       IN  ret' = [op |-> "detect_triggers", query |-> query,
                   raised |-> d.raised, matches |-> d.matches]
    /\ UNCHANGED <<roles, role_triggers, active_sessions, memories, calls, now, next_id>>

GetBestRoleForQuery(query, current_role_id) ==
    /\ LET b == get_best_role_for_query(role_triggers, QueryText[query], current_role_id)
       IN  ret' = [op |-> "get_best_role_for_query", query |-> query,
                   current_role_id |-> current_role_id,
                   raised |-> b.raised, role |-> b.role]
    /\ UNCHANGED <<roles, role_triggers, active_sessions, memories, calls, now, next_id>>

-----------------------------------------------------------------------------
(* Session operations *)

CreateSession(session_id, initial_role_id) ==
    /\ LET r == create_session(roles, active_sessions, session_id, initial_role_id)
       IN  /\ active_sessions' = r.sessions
           /\ ret' = [op |-> "create_session", session_id |-> session_id,
                      role_id |-> initial_role_id, error |-> r.error]
    /\ UNCHANGED <<roles, role_triggers, memories, calls, now, next_id>>

GetSession(session_id) ==
    /\ ret' = [op |-> "get_session", session_id |-> session_id,
               found |-> session_id \in DOMAIN active_sessions]
    /\ UNCHANGED <<roles, role_triggers, active_sessions, memories, calls, now, next_id>>

GetContextSwitchHistory(session_id) ==
    /\ ret' = IF session_id \in DOMAIN active_sessions
              THEN [op |-> "get_context_switch_history", session_id |-> session_id,
                    error |-> None, history |-> active_sessions[session_id].history]
              ELSE [op |-> "get_context_switch_history", session_id |-> session_id,
                    error |-> "NotFound", history |-> <<>>]
    /\ UNCHANGED <<roles, role_triggers, active_sessions, memories, calls, now, next_id>>

ManuallySwitchContext(session_id, new_role_id, reason) ==
    /\ LET r == manually_switch_context(roles, active_sessions, session_id,
                                        new_role_id, reason)
       IN  /\ r.switched => Len(active_sessions[session_id].history) < MaxHistory
           /\ active_sessions' = r.sessions
           /\ ret' = [op |-> "manually_switch_context", session_id |-> session_id,
                      new_role_id |-> new_role_id, reason |-> reason,
                      error |-> r.error, switched |-> r.switched]
    /\ UNCHANGED <<roles, role_triggers, memories, calls, now, next_id>>

CloseSession(session_id) ==
    /\ IF session_id \in DOMAIN active_sessions
       THEN /\ active_sessions' = RemoveSession(active_sessions, session_id)
            /\ ret' = [op |-> "close_session", session_id |-> session_id, result |-> TRUE]
       ELSE /\ ret' = [op |-> "close_session", session_id |-> session_id, result |-> FALSE]
            /\ UNCHANGED active_sessions
    /\ UNCHANGED <<roles, role_triggers, memories, calls, now, next_id>>

-----------------------------------------------------------------------------
(* process_query_with_context_switching: the decision and the switch run up to  *)
(* the first provider call (create_embedding); the call resumes when the        *)
(* embedding returns and again when the completion returns.                     *)

\* the call raised: at the decision ("begin") or while the prompt was built ("prompt")
Failed(session_id, query, force_role_id, error, stage) ==
    [op |-> "process", session_id |-> session_id, query |-> query,
     force_role_id |-> force_role_id, error |-> error, stage |-> stage]

ProcessBegin(c, session_id, query, force_role_id, custom_instructions) ==
    /\ calls[c] = Idle
    /\ TotalMemories(memories) < MaxMemories
    /\ next_id <= MaxStored
    /\ (session_id \in DOMAIN active_sessions
         /\ DecideRole(role_triggers, active_sessions[session_id].current_role_id,
                       QueryText[query], force_role_id).context_switch) =>
           Len(active_sessions[session_id].history) < MaxHistory
    /\ IF session_id \notin DOMAIN active_sessions
       THEN /\ ret' = Failed(session_id, query, force_role_id, "NotFound", "begin")
            /\ UNCHANGED <<active_sessions, calls>>
       ELSE LET session == active_sessions[session_id]
                current_role_id == session.current_role_id
                d == DecideRole(role_triggers, current_role_id, QueryText[query],
                                force_role_id)
            IN  IF d.raised
                THEN /\ ret' = Failed(session_id, query, force_role_id, "re.error", "begin")
                     /\ UNCHANGED <<active_sessions, calls>>
                ELSE IF d.context_switch /\ (~RoleExists(roles, current_role_id)
                                             \/ ~RoleExists(roles, d.new_role_id))
                THEN /\ ret' = Failed(session_id, query, force_role_id, "NotFound", "begin")
                     /\ UNCHANGED <<active_sessions, calls>>
                ELSE /\ active_sessions' =
                            IF d.context_switch
                            THEN SetSession(active_sessions, session_id,
                                            ApplySwitch(session, d.new_role_id,
                                                        d.switch_reason, query))
                            ELSE active_sessions
                     /\ calls' = [calls EXCEPT ![c] =
                            [pc |-> "embed", session_id |-> session_id, query |-> query,
                             force_role_id |-> force_role_id,
                             current_role_id |-> current_role_id,
                             new_role_id |-> d.new_role_id,
                             context_switch |-> d.context_switch,
                             switch_reason |-> d.switch_reason,
                             context_switch_info |->
                                 IF d.context_switch
                                 THEN context_switch_info(Get(roles, current_role_id),
                                                          Get(roles, d.new_role_id))
                                 ELSE <<>>,
                             caller_instructions |-> custom_instructions,
                             custom_instructions |->
                                 IF d.context_switch
                                 THEN MergeInstructions(
                                          context_switch_info(Get(roles, current_role_id),
                                                              Get(roles, d.new_role_id)),
                                          custom_instructions)
                                 ELSE custom_instructions,
                             embedding |-> <<>>]]
                     /\ ret' = [op |-> "process_begin", call |-> c,
                                session_id |-> session_id, query |-> query,
                                force_role_id |-> force_role_id,
                                current_role_id |-> current_role_id,
                                new_role_id |-> d.new_role_id,
                                context_switch |-> d.context_switch,
                                switch_reason |-> d.switch_reason]
    /\ UNCHANGED <<roles, role_triggers, memories, now, next_id>>

\* create_embedding returns (the empty list when the provider failed); then
\* get_relevant_memories and generate_complete_prompt run, up to generate_response
ProcessEmbedded(c, embedding) ==
    /\ calls[c].pc = "embed"
    /\ LET call == calls[c]
           mem1 == AfterGetRelevant(memories, call.new_role_id, embedding, now)
       IN  IF ~RoleExists(roles, call.new_role_id)
           THEN /\ memories' = mem1
                /\ calls' = [calls EXCEPT ![c] = Idle]
                /\ ret' = Failed(call.session_id, call.query, call.force_role_id, "NotFound",
                              "prompt")
           ELSE /\ memories' = PurgeExpired(mem1, call.new_role_id, now)
                /\ calls' = [calls EXCEPT ![c] =
                                [call EXCEPT !.pc = "complete", !.embedding = embedding]]
                /\ ret' = [op |-> "process_embedded", call |-> c,
                           system_prompt |->
                               SystemPrompt(Get(roles, call.new_role_id),
                                   call.custom_instructions,
                                   Partition(PurgeExpired(mem1, call.new_role_id, now),
                                             call.new_role_id),
                                   get_relevant_memories(memories, roles, call.new_role_id,
                                       embedding, 5, None, <<>>, TRUE, FALSE, <<>>,
                                       now).result)]
    /\ UNCHANGED <<roles, role_triggers, active_sessions, now, next_id>>

\* variant: the exchange stored under the role the session had before the switch
ProcessCompleted_StoresUnderOldRole(c) ==
    /\ calls[c].pc = "complete"
    /\ LET call == calls[c]
       IN  /\ memories' = store_memory(memories,
                              MemoryCreate(call.current_role_id, "session", "medium",
                                           <<>>, None, <<>>, NoMemory),
                              call.embedding, now, next_id)
           /\ next_id' = next_id + 1
           /\ calls' = [calls EXCEPT ![c] = Idle]
           /\ ret' = [op |-> "process", session_id |-> call.session_id,
                      query |-> call.query, force_role_id |-> call.force_role_id,
                      error |-> None, stage |-> "done", role_id |-> call.new_role_id,
                      context_switched |-> call.context_switch,
                      switch_reason |-> IF call.context_switch
                                        THEN call.switch_reason ELSE None,
                      call |-> c]
    /\ UNCHANGED <<roles, role_triggers, active_sessions, now>>

\* generate_response returns; the exchange is stored and the result returned
ProcessCompleted(c) ==
    /\ calls[c].pc = "complete"
    /\ LET call == calls[c]
       IN  /\ memories' = store_memory(memories,
                              MemoryCreate(call.new_role_id, "session", "medium",
                                           <<>>, None, <<>>, NoMemory),
                              call.embedding, now, next_id)
           /\ next_id' = next_id + 1
           /\ calls' = [calls EXCEPT ![c] = Idle]
           /\ ret' = [op |-> "process", session_id |-> call.session_id,
                      query |-> call.query, force_role_id |-> call.force_role_id,
                      error |-> None, stage |-> "done", role_id |-> call.new_role_id,
                      context_switched |-> call.context_switch,
                      switch_reason |-> IF call.context_switch
                                        THEN call.switch_reason ELSE None,
                      call |-> c]
    /\ UNCHANGED <<roles, role_triggers, active_sessions, now>>

-----------------------------------------------------------------------------
(* Registry operations and time *)

CreateRole(role) ==
    /\ IF Has(roles, role.id)
       THEN /\ ret' = [op |-> "create_role", role_id |-> role.id, error |-> "Conflict"]
            /\ UNCHANGED roles
       ELSE /\ roles' = Put(roles, role.id, role)
            /\ ret' = [op |-> "create_role", role_id |-> role.id, error |-> None]
    /\ UNCHANGED <<role_triggers, active_sessions, memories, calls, now, next_id>>

DeleteRole(role_id) ==
    /\ IF ~Has(roles, role_id)
       THEN /\ ret' = [op |-> "delete_role", role_id |-> role_id, error |-> "NotFound"]
            /\ UNCHANGED <<roles, memories>>
       ELSE IF Get(roles, role_id).is_default
       THEN /\ ret' = [op |-> "delete_role", role_id |-> role_id, error |-> "Forbidden"]
            /\ UNCHANGED <<roles, memories>>
       ELSE /\ roles' = Del(roles, role_id)
            /\ memories' = clear_memories_by_role_id(memories, role_id, None, None,
                                                     <<>>, FALSE)
            /\ ret' = [op |-> "delete_role", role_id |-> role_id, error |-> None]
    /\ UNCHANGED <<role_triggers, active_sessions, calls, now, next_id>>

UpdateMemoryAccess(role_id, inherit_memories, memory_access_level, memory_categories) ==
    /\ LET r == update_memory_access(roles, role_id, inherit_memories,
                                     memory_access_level, memory_categories)
       IN  /\ roles' = r.roles
           /\ ret' = [op |-> "update_memory_access", role_id |-> role_id,
                      inherit_memories |-> inherit_memories,
                      memory_access_level |-> memory_access_level,
                      memory_categories |-> memory_categories, error |-> r.error]
    /\ UNCHANGED <<role_triggers, active_sessions, memories, calls, now, next_id>>

SetParentRole(role_id, parent_id) ==
    /\ LET r == set_parent_role(roles, role_id, parent_id)
       IN  /\ roles' = r.roles
           /\ ret' = [op |-> "set_parent_role", role_id |-> role_id,
                      parent_id |-> parent_id, error |-> r.error]
    /\ UNCHANGED <<role_triggers, active_sessions, memories, calls, now, next_id>>

RemoveParentRole(role_id) ==
    /\ LET r == remove_parent_role(roles, role_id)
       IN  /\ roles' = r.roles
           /\ ret' = [op |-> "remove_parent_role", role_id |-> role_id,
                      error |-> r.error]
    /\ UNCHANGED <<role_triggers, active_sessions, memories, calls, now, next_id>>

\* datetime.now() advances
Tick(d) ==
    /\ now + d <= MaxTime
    /\ now' = now + d
    /\ ret' = [op |-> "tick"]
    /\ UNCHANGED <<roles, role_triggers, active_sessions, memories, calls, next_id>>

-----------------------------------------------------------------------------
(* Memory operations *)

\* POST /memories: store_memory(memory_create, embedding) at the current time
StoreMemory(memory_create, embedding) ==
    /\ next_id <= MaxStored
    /\ memories' = store_memory(memories, memory_create, embedding, now, next_id)
    /\ next_id' = next_id + 1 + Len(memory_create.shared_with)
    /\ ret' = [op |-> "store_memory", memory_create |-> memory_create,
               embedding |-> embedding, id |-> next_id, at |-> now]
    /\ UNCHANGED <<roles, role_triggers, active_sessions, calls, now>>

\* get_memories_by_role_id as a caller invokes it, without a role or with the
\* registry's role of role_id as role=
GetMemoriesByRoleId(role_id, memory_type, category, tags, include_shared, include_inherited, with_role) ==
    /\ LET role == IF with_role THEN RoleOf(roles, role_id) ELSE NoRole
           r == get_memories_by_role_id(memories, roles, role_id, memory_type, category,
                    tags, include_shared, include_inherited, role, now, 1)
       IN  /\ memories' = r.mem
           /\ ret' = [op |-> "get_memories_by_role_id", role_id |-> role_id,
                      memory_type |-> memory_type, category |-> category, tags |-> tags,
                      include_shared |-> include_shared,
                      include_inherited |-> include_inherited, role |-> role,
                      error |-> r.error, result |-> r.result]
    /\ UNCHANGED <<roles, role_triggers, active_sessions, calls, now, next_id>>

GetRelevantMemories(role_id, embedding, limit, category, tags, include_shared, cross_role, related_role_ids) ==
    /\ LET r == get_relevant_memories(memories, roles, role_id, embedding, limit,
                    category, tags, include_shared, cross_role, related_role_ids, now)
       IN  /\ memories' = r.mem
           /\ ret' = [op |-> "get_relevant_memories", role_id |-> role_id,
                      embedding |-> embedding, limit |-> limit, category |-> category,
                      tags |-> tags, include_shared |-> include_shared,
                      cross_role |-> cross_role, related_role_ids |-> related_role_ids,
                      result |-> r.result, scores |-> r.scores]
    /\ UNCHANGED <<roles, role_triggers, active_sessions, calls, now, next_id>>

\* POST /memories/semantic-search: create_embedding(query), then get_relevant_memories
SemanticSearch(role_id, response, limit, cross_role) ==
    /\ LET embedding == create_embedding(response)
           r == get_relevant_memories(memories, roles, role_id, embedding, limit,
                    None, <<>>, TRUE, cross_role, <<>>, now)
       IN  /\ memories' = r.mem
           /\ ret' = [op |-> "semantic_search", role_id |-> role_id,
                      response |-> response, embedding |-> embedding, limit |-> limit,
                      cross_role |-> cross_role, error |-> None, result |-> r.result]
    /\ UNCHANGED <<roles, role_triggers, active_sessions, calls, now, next_id>>

ShareMemory(role_id, memory_id, target_role_ids) ==
    /\ next_id <= MaxStored
    /\ LET r == share_memory(memories, roles, role_id, memory_id, target_role_ids,
                             now, next_id)
       IN  /\ memories' = r.mem
           /\ next_id' = IF r.error = None THEN next_id + 1 + Len(r.shared_with)
                         ELSE next_id
           /\ ret' = [op |-> "share_memory", role_id |-> role_id,
                      memory_id |-> memory_id, target_role_ids |-> target_role_ids,
                      error |-> r.error, id |-> next_id]
    /\ UNCHANGED <<roles, role_triggers, active_sessions, calls, now>>

ClearMemoriesByRoleId(role_id, memory_type, category, tags, shared_only) ==
    /\ memories' = clear_memories_by_role_id(memories, role_id, memory_type, category,
                                             tags, shared_only)
    /\ ret' = [op |-> "clear_memories_by_role_id", role_id |-> role_id,
               memory_type |-> memory_type, category |-> category, tags |-> tags,
               shared_only |-> shared_only, result |-> TRUE]
    /\ UNCHANGED <<roles, role_triggers, active_sessions, calls, now, next_id>>

GetRoleInheritanceChain(role_id) ==
    /\ LET r == get_role_inheritance_chain(roles, role_id)
       IN  ret' = [op |-> "get_role_inheritance_chain", role_id |-> role_id,
                   error |-> r.error, result |-> r.result]
    /\ UNCHANGED <<roles, role_triggers, active_sessions, memories, calls, now, next_id>>

GetRelatedRoles(role_id) ==
    /\ LET r == get_related_roles(memories, roles, role_id)
       IN  ret' = [op |-> "get_related_roles", role_id |-> role_id,
                   error |-> r.error, result |-> r.result]
    /\ UNCHANGED <<roles, role_triggers, active_sessions, memories, calls, now, next_id>>

-----------------------------------------------------------------------------
(* Specifications *)

\* the trigger index and the detector alone
TrigCustomLists == {<<>>, <<PatQuarter, PatTax>>, <<BadPattern>>}

TrigPatterns == {PatTax, BadPattern}

CurrentIds == {"ceo-advisor", "cfo-advisor", "cmo-advisor", "hr-advisor", None}

NextTrigger ==
    \/ InitializeRoles
    \/ \E custom \in TrigCustomLists : RegisterRoleTriggers(TaxRole, custom)
    \/ UnregisterRoleTriggers("tax-advisor")
    \/ \E p \in TrigPatterns : AddCustomTrigger("hr-advisor", p, 3)
    \/ \E p \in TrigPatterns : RemoveCustomTrigger("hr-advisor", p)
    \/ GetRoleTriggers("hr-advisor")
    \/ \E q \in Queries : DetectTriggers(q)
    \/ \E q \in Queries, r \in CurrentIds : GetBestRoleForQuery(q, r)

SpecTrigger == Init /\ [][NextTrigger]_vars

\* the session manager with the query pipeline
CreateInputs ==
    {<<"s1", "ceo-advisor">>, <<"s1", "cfo-advisor">>, <<"s1", "tax-advisor">>,
     <<"s2", "cfo-advisor">>}

ManualInputs ==
    ({"s1"} \X {"ceo-advisor", "cfo-advisor", "tax-advisor"} \X Reasons)
    \cup {<<"s2", "cfo-advisor", "Manual switch by user">>}

ProcessInputs ==
    {<<"s1", "pnl", None>>, <<"s1", "names", None>>, <<"s1", "hello", None>>,
     <<"s1", "hello", "cfo-advisor">>, <<"s1", "hello", "tax-advisor">>,
     <<"s2", "names", None>>}

Next ==
    \/ InitializeRoles
    \/ RegisterRoleTriggers(DEFAULT_ROLES[1], <<BadPattern>>)
    \/ \E i \in CreateInputs : CreateSession(i[1], i[2])
    \/ \E s \in SessionIds : GetSession(s)
    \/ \E s \in SessionIds : GetContextSwitchHistory(s)
    \/ \E i \in ManualInputs : ManuallySwitchContext(i[1], i[2], i[3])
    \/ \E s \in SessionIds : CloseSession(s)
    \/ \E c \in CallIds, i \in ProcessInputs : ProcessBegin(c, i[1], i[2], i[3], <<>>)
    \/ \E c \in CallIds : ProcessEmbedded(c, <<1, 0>>)
    \/ \E c \in CallIds : ProcessCompleted(c)

Spec == Init /\ [][Next]_vars

\* the query pipeline with instructions of the caller; counsel is a custom role
\* whose description has two paragraphs
Counsel ==
    [Role("counsel", <<"Counsel">>, <<"legal">>, FALSE)
        EXCEPT !.description = <<"contracts", PARA, "disputes">>]

PromptInstructions == {<<>>, <<"be brief">>, <<"be brief", PARA, "cite sources">>}

\* <<session_id, query, force_role_id, custom_instructions>>
PromptInputs ==
    ({"s1"} \X {"hello"} \X {None, "ceo-advisor", "cfo-advisor", "counsel"}
            \X PromptInstructions)
    \cup ({"s1"} \X {"pnl"} \X {None} \X PromptInstructions)

NextPrompt ==
    \/ InitializeRoles
    \/ CreateRole(Counsel)
    \/ \E r \in {"ceo-advisor", "counsel"} : CreateSession("s1", r)
    \/ \E c \in CallIds, i \in PromptInputs : ProcessBegin(c, i[1], i[2], i[3], i[4])
    \/ \E c \in CallIds, e \in Embeddings : ProcessEmbedded(c, e)
    \/ \E c \in CallIds : ProcessCompleted(c)

SpecPrompt == Init /\ [][NextPrompt]_vars

\* the memory store with a small role graph: analyst inherits from cfo-advisor
\* (or, closing a cycle, from junior); junior inherits from analyst
Analyst == ChildRole("analyst", "cfo-advisor", TRUE, "elevated", <<"legal">>)
AnalystLoop == ChildRole("analyst", "junior", TRUE, "admin", <<>>)
Junior == ChildRole("junior", "analyst", TRUE, "standard", <<>>)

MemRoles == {Analyst, AnalystLoop, Junior}

MemRoleIds == {"cfo-advisor", "analyst", "junior"}

\* the memories clients store: <<memory_create, embedding>>
MemoryInputs ==
    {<<MemoryCreate("cfo-advisor", "knowledge", "high", <<"q1">>, None, <<>>, NoMemory),
       <<1, 0>>>>,
     <<MemoryCreate("cfo-advisor", "user", "medium", <<>>, "tax", <<"analyst">>, NoMemory),
       <<3, 4>>>>,
     <<MemoryCreate("analyst", "session", "low", <<"q1", "q2">>, "legal", <<"junior">>,
                    NoMemory), <<1, 0>>>>,
     <<MemoryCreate("analyst", "knowledge", "medium", <<"q2">>, "tax", <<>>, NoMemory),
       <<>>>>}

\* <<role_id, memory_type, category, tags, include_shared, include_inherited,
\*   with_role>>
GetInputs ==
    {<<r, None, None, <<>>, TRUE, TRUE, w>> : r \in MemRoleIds, w \in BOOLEAN}
    \cup {<<"junior", None, None, <<>>, TRUE, FALSE, TRUE>>,
          <<"analyst", "user", "tax", <<"q2">>, FALSE, TRUE, TRUE>>,
          <<"analyst", "user", "tax", <<"q2">>, FALSE, TRUE, FALSE>>}

\* <<role_id, embedding, limit, category, tags, include_shared, cross_role,
\*   related_role_ids>>
RelevantInputs ==
    {<<"analyst", <<1, 0>>, 5, "legal", <<>>, TRUE, FALSE, <<>>>>,
     <<"analyst", <<>>, 5, None, <<>>, TRUE, FALSE, <<>>>>,
     <<"junior", <<3, 4>>, 1, None, <<"q1", "q2">>, TRUE, TRUE, <<>>>>,
     <<"junior", <<3, 4>>, 5, None, <<>>, TRUE, FALSE, <<"cfo-advisor", "analyst">>>>,
     <<"cfo-advisor", <<3, 4>>, -1, None, <<>>, TRUE, TRUE, <<>>>>,
     <<"analyst", <<-1, 0>>, 5, None, <<>>, TRUE, TRUE, <<>>>>}

\* <<role_id, response of the provider, limit, cross_role>>
SearchInputs ==
    {<<"analyst", ProviderRaised, 5, FALSE>>,
     <<"analyst", ProviderReturned(<<1, 0>>), 5, FALSE>>,
     <<"junior", ProviderRaised, 5, TRUE>>}

\* <<role_id, memory_type, category, tags, shared_only>>
MemClearInputs ==
    {<<"analyst", None, None, <<>>, FALSE>>,
     <<"analyst", "session", None, <<"q1">>, TRUE>>}

\* the same, for the store under clearing alone
ClearInputs ==
    {<<"analyst", None, None, <<>>, FALSE>>,
     <<"analyst", "session", None, <<"q1">>, TRUE>>,
     <<"analyst", "session", None, <<"q2">>, FALSE>>,
     <<"analyst", None, "tax", <<>>, FALSE>>,
     <<"cfo-advisor", "user", None, <<>>, FALSE>>,
     <<"junior", None, None, <<>>, TRUE>>,
     <<"ghost", "session", None, <<>>, FALSE>>}

NextMemory ==
    \/ \E role \in MemRoles : CreateRole(role)
    \/ \E m \in MemoryInputs : StoreMemory(m[1], m[2])
    \/ \E g \in GetInputs :
           GetMemoriesByRoleId(g[1], g[2], g[3], g[4], g[5], g[6], g[7])
    \/ \E g \in RelevantInputs :
           GetRelevantMemories(g[1], g[2], g[3], g[4], g[5], g[6], g[7], g[8])
    \/ \E g \in MemClearInputs : ClearMemoriesByRoleId(g[1], g[2], g[3], g[4], g[5])
    \/ GetRelatedRoles("analyst")
    \/ \E d \in TickSteps : Tick(d)

SpecMemory == Init /\ [][NextMemory]_vars

\* the memory store under store and search, with the embedding provider
NextSearch ==
    \/ \E m \in MemoryInputs : StoreMemory(m[1], m[2])
    \/ \E g \in SearchInputs : SemanticSearch(g[1], g[2], g[3], g[4])
    \/ \E g \in RelevantInputs :
           GetRelevantMemories(g[1], g[2], g[3], g[4], g[5], g[6], g[7], g[8])
    \/ \E d \in TickSteps : Tick(d)

SpecSearch == Init /\ [][NextSearch]_vars

\* the memory store under store and clear
NextClear ==
    \/ \E m \in MemoryInputs : StoreMemory(m[1], m[2])
    \/ \E g \in ClearInputs : ClearMemoriesByRoleId(g[1], g[2], g[3], g[4], g[5])

SpecClear == Init /\ [][NextClear]_vars

\* the role registry and the walks over its parent relation
ChainRoles ==
    {ChildRole(id, parent, inherit, "standard", <<>>) :
        id \in {"analyst", "junior"},
        parent \in {"cfo-advisor", "analyst", "junior", "ghost"},
        inherit \in BOOLEAN}

NextChain ==
    \/ \E role \in ChainRoles : CreateRole(role)
    \/ \E r \in {"analyst", "junior", "ghost"} : GetRoleInheritanceChain(r)
    \/ \E r \in {"cfo-advisor", "analyst"} : GetRelatedRoles(r)

SpecChain == Init /\ [][NextChain]_vars

\* the query pipeline while roles are created and deleted and the session is
\* closed or switched by other requests; counsel is the only role that can go
\* <<new_role_id, reason>>
DeleteManualInputs ==
    {<<"cfo-advisor", "Manual switch by user">>, <<"counsel", "user asked for finance">>}

NextDelete ==
    \/ CreateRole(Counsel)
    \/ \E r \in {"counsel", "ceo-advisor", "ghost"} : DeleteRole(r)
    \/ \E r \in {"ceo-advisor", "counsel"} : CreateSession("s1", r)
    \/ \E i \in DeleteManualInputs : ManuallySwitchContext("s1", i[1], i[2])
    \/ CloseSession("s1")
    \/ \E c \in CallIds, f \in {None, "counsel"} : ProcessBegin(c, "s1", "hello", f, <<>>)
    \/ \E c \in CallIds, e \in Embeddings : ProcessEmbedded(c, e)
    \/ \E c \in CallIds : ProcessCompleted(c)

SpecDelete == Init /\ [][NextDelete]_vars

\* the same, where the embedding provider and the completion provider return:
\* a call suspended at a provider is resumed
SpecDeleteLive ==
    /\ SpecDelete
    /\ \A c \in CallIds : WF_vars(\E e \in Embeddings : ProcessEmbedded(c, e))
    /\ \A c \in CallIds : WF_vars(ProcessCompleted(c))

\* the memory store under the query pipeline and the requests of other clients:
\* memories are stored, read and cleared and time passes while a call is suspended
StoreInputs ==
    {<<MemoryCreate("cfo-advisor", "knowledge", "high", <<"q1">>, None, <<>>, NoMemory),
       <<1, 0>>>>,
     <<MemoryCreate("cfo-advisor", "session", "low", <<>>, None, <<>>, NoMemory),
       <<3, 4>>>>}

NextStore ==
    \/ CreateSession("s1", "cfo-advisor")
    \/ \E c \in CallIds : ProcessBegin(c, "s1", "hello", None, <<>>)
    \/ \E c \in CallIds, e \in Embeddings : ProcessEmbedded(c, e)
    \/ \E c \in CallIds : ProcessCompleted(c)
    \/ \E m \in StoreInputs : StoreMemory(m[1], m[2])
    \/ \E w \in BOOLEAN :
           GetMemoriesByRoleId("cfo-advisor", None, None, <<>>, TRUE, TRUE, w)
    \/ GetRelevantMemories("cfo-advisor", <<3, 4>>, 1, None, <<>>, TRUE, TRUE, <<>>)
    \/ GetRelatedRoles("cfo-advisor")
    \/ ClearMemoriesByRoleId("cfo-advisor", "session", None, <<>>, FALSE)
    \/ \E d \in TickSteps : Tick(d)

SpecStore == Init /\ [][NextStore]_vars

\* the memory-access settings of an inheriting role under updates, with the
\* memories of its parent
AccessLevels == {"standard", "elevated", "admin", "guest"}

AccessInputs ==
    {<<MemoryCreate("cfo-advisor", "knowledge", "high", <<>>, None, <<>>, NoMemory),
       <<1, 0>>>>,
     <<MemoryCreate("cfo-advisor", "user", "medium", <<>>, None, <<>>, NoMemory),
       <<3, 4>>>>,
     <<MemoryCreate("cfo-advisor", "session", "low", <<>>, "legal", <<>>, NoMemory),
       <<1, 0>>>>,
     <<MemoryCreate("analyst", "session", "low", <<>>, None, <<>>, NoMemory), <<>>>>}

NextAccess ==
    \/ CreateRole(Analyst)
    \/ \E r \in {"analyst", "cfo-advisor", "ghost"}, level \in AccessLevels :
           UpdateMemoryAccess(r, Nothing, Some(level), Nothing)
    \/ \E i \in BOOLEAN : UpdateMemoryAccess("analyst", Some(i), Nothing, Some(<<>>))
    \/ \E m \in AccessInputs : StoreMemory(m[1], m[2])
    \/ \E w \in BOOLEAN :
           GetMemoriesByRoleId("analyst", None, None, <<>>, TRUE, TRUE, w)

SpecAccess == Init /\ [][NextAccess]_vars

\* the memory store under store and share
ShareInputs ==
    {<<MemoryCreate("cfo-advisor", "knowledge", "high", <<>>, None, <<>>, NoMemory),
       <<1, 0>>>>,
     <<MemoryCreate("cfo-advisor", "user", "medium", <<>>, "tax", <<"analyst">>, NoMemory),
       <<3, 4>>>>}

ShareTargets == {<<"analyst">>, <<"junior">>, <<"analyst", "junior">>}

NextShare ==
    \/ \E m \in ShareInputs : StoreMemory(m[1], m[2])
    \/ \E r \in {"cfo-advisor", "analyst"}, id \in 1..MaxStored, t \in ShareTargets :
           ShareMemory(r, id, t)
    \/ \E r \in {"cfo-advisor", "analyst", "junior"} :
           GetMemoriesByRoleId(r, None, None, <<>>, TRUE, TRUE, FALSE)

SpecShare == Init /\ [][NextShare]_vars

\* the parent relation of the registry under the parent-role and memory-access
\* routes; the roles are created with an acyclic relation: junior under analyst
\* under cfo-advisor
ParentRoles ==
    {ChildRole("analyst", "cfo-advisor", inherit, "standard", <<>>) : inherit \in BOOLEAN}
    \cup {ChildRole("junior", "analyst", inherit, "standard", <<>>) : inherit \in BOOLEAN}

ParentIds == {"analyst", "junior", "cfo-advisor", "ghost"}

NextParent ==
    \/ \E role \in ParentRoles : CreateRole(role)
    \/ \E r \in ParentIds, parent \in ParentIds : SetParentRole(r, parent)
    \/ \E r \in ParentIds : RemoveParentRole(r)
    \/ \E r \in ParentIds, i \in BOOLEAN :
           UpdateMemoryAccess(r, Some(i), Nothing, Nothing)

SpecParent == Init /\ [][NextParent]_vars

-----------------------------------------------------------------------------
(* Properties of the trigger detector (SpecTrigger) *)

\* C1: get_best_role_for_query returns none when no role matches; otherwise, with
\* top the maximum detected score and current the score of current_role_id (0 when
\* it is not among the matches), it returns current_role_id when
\* current >= 0.8 * top and a top-scoring role otherwise.
C1_BestRoleHysteresis ==
    (ret.op = "get_best_role_for_query" /\ ~ret.raised) =>
        LET matches == detect_triggers(role_triggers, QueryText[ret.query]).matches
            scores == {matches[i][2] : i \in DOMAIN matches}
            top == CHOOSE x \in scores : \A y \in scores : y <= x
            at == {i \in DOMAIN matches : matches[i][1] = ret.current_role_id}
            current == IF at = {} THEN 0 ELSE matches[CHOOSE i \in at : TRUE][2]
        IN  IF matches = <<>> THEN ret.role = None
            ELSE IF 10 * current >= 8 * top THEN ret.role = ret.current_role_id
            ELSE \E i \in DOMAIN matches : matches[i] = <<ret.role, top>>

\* C1 witness: the current role is kept although another role scores higher
\* (current 4, top 5: exactly 0.8 of the top score)
C1_Witness ==
    /\ ret.op = "get_best_role_for_query"
    /\ ~ret.raised
    /\ ret.role = ret.current_role_id
    /\ LET matches == detect_triggers(role_triggers, QueryText[ret.query]).matches
       IN  /\ Len(matches) >= 2
           /\ matches[1][1] # ret.current_role_id
           /\ \E i \in DOMAIN matches : /\ matches[i][1] = ret.current_role_id
                                        /\ matches[i][2] < matches[1][2]

\* C2: detect_triggers gives every role the sum of the priorities of its matching
\* triggers plus 2 per distinct priority among them, drops the roles whose score
\* is 0 and orders the result by score, highest first.
C2_DetectScores ==
    (ret.op = "detect_triggers" /\ ~ret.raised) =>
        LET query == QueryText[ret.query]
            matches == ret.matches
            Hits(i) == {j \in DOMAIN role_triggers[i].v :
                           Search(role_triggers[i].v[j].pattern, query)}
            Final(i) == RoleScore(role_triggers[i].v, Hits(i))
                        + 2 * Cardinality({role_triggers[i].v[j].priority : j \in Hits(i)})
        IN  /\ \A i \in DOMAIN role_triggers :
                   LET here == {n \in DOMAIN matches : matches[n][1] = role_triggers[i].k}
                   IN  IF Final(i) = 0 THEN here = {}
                       ELSE /\ Cardinality(here) = 1
                            /\ \A n \in here : matches[n][2] = Final(i)
            /\ \A n \in DOMAIN matches : matches[n][1] \in Keys(role_triggers)
            /\ \A n, m \in DOMAIN matches : n < m => matches[n][2] >= matches[m][2]

\* C2 witness: two roles with different scores, one of them matched by two
\* triggers of the same priority
C2_Witness ==
    /\ ret.op = "detect_triggers"
    /\ ~ret.raised
    /\ Len(ret.matches) >= 2
    /\ ret.matches[1][2] > ret.matches[2][2]
    /\ \E i \in DOMAIN role_triggers :
           \E j, l \in DOMAIN role_triggers[i].v :
               /\ j # l
               /\ role_triggers[i].v[j].priority = role_triggers[i].v[l].priority
               /\ Search(role_triggers[i].v[j].pattern, QueryText[ret.query])
               /\ Search(role_triggers[i].v[l].pattern, QueryText[ret.query])

-----------------------------------------------------------------------------
(* Properties of the session manager (Spec) *)

\* C3: the role a query is processed with is force_role_id when one is given
\* (detection is not consulted: a forced call never fails in the detector), and
\* otherwise the result of get_best_role_for_query for the current role, or the
\* current role when nothing is detected; the switched flag the call reports is
\* true exactly when that role differs from the session's role before the call.
C3_TargetAndSwitchedFlag ==
    [][ /\ ret'.op = "process_begin" =>
              LET cur == active_sessions[ret'.session_id].current_role_id
                  best == get_best_role_for_query(role_triggers, QueryText[ret'.query],
                                                  cur).role
                  target == IF ret'.force_role_id # None THEN ret'.force_role_id
                            ELSE IF best = None THEN cur ELSE best
              IN  /\ calls'[ret'.call].new_role_id = target
                  /\ calls'[ret'.call].context_switch = (target # cur)
                  /\ calls'[ret'.call].current_role_id = cur
        /\ (ret'.op = "process" /\ ret'.error = None) =>
              /\ ret'.role_id = calls[ret'.call].new_role_id
              /\ ret'.context_switched =
                     (calls[ret'.call].new_role_id # calls[ret'.call].current_role_id)
        /\ (ret'.op = "process" /\ ret'.error = "re.error") => ret'.force_role_id = None
      ]_vars

\* C3 witness: a call that was forced to the role the session already had
\* returns and reports no switch
C3_Witness ==
    /\ ret.op = "process"
    /\ ret.error = None
    /\ ret.force_role_id # None
    /\ ~ret.context_switched
    /\ ret.role_id = ret.force_role_id

\* C4: a switch applied to a session appends exactly one event (from the previous
\* role to the target, with the query, or none for a manual switch, and the
\* reason) and sets current_role_id to the target and last_switch_reason to the
\* reason: "Detected triggers for a different role" when automatic, "Manually
\* switched to a different role" when forced, the caller's string when manual.
C4_SwitchBookkeeping ==
    [][ \A s \in DOMAIN active_sessions :
          LET before == active_sessions[s]
              Switched(target, reason, query) ==
                  /\ s \in DOMAIN active_sessions'
                  /\ active_sessions'[s] =
                       [current_role_id |-> target,
                        history |-> Append(before.history,
                                           [timestamp |-> "now",
                                            from_role_id |-> before.current_role_id,
                                            to_role_id |-> target,
                                            reason |-> reason,
                                            query |-> query]),
                        last_switch_reason |-> reason]
          IN  /\ (ret'.op = "process_begin" /\ ret'.session_id = s
                  /\ (ret'.context_switch \/ active_sessions'[s] # before)) =>
                    Switched(ret'.new_role_id,
                             IF ret'.force_role_id = None
                             THEN "Detected triggers for a different role"
                             ELSE "Manually switched to a different role",
                             ret'.query)
              /\ (ret'.op = "manually_switch_context" /\ ret'.session_id = s
                  /\ (ret'.switched \/ active_sessions'[s] # before)) =>
                    Switched(ret'.new_role_id, ret'.reason, None)
      ]_vars

\* C4 witness: a session switched twice, first by detection, then manually with
\* the caller's reason
C4_Witness ==
    \E s \in DOMAIN active_sessions :
        /\ Len(active_sessions[s].history) = 2
        /\ active_sessions[s].history[1].reason = "Detected triggers for a different role"
        /\ active_sessions[s].history[2].reason = "user asked for finance"
        /\ active_sessions[s].last_switch_reason = "user asked for finance"
        /\ ret.op = "manually_switch_context"

\* C5: when the target role is the session's current role (no or insufficient
\* triggers, a forced role equal to the current one, a manual switch to the
\* current role) the session table is left as it was.
C5_NoSwitchNoChange ==
    [][ /\ (ret'.op = "process_begin"
            /\ ret'.new_role_id = active_sessions[ret'.session_id].current_role_id) =>
               active_sessions' = active_sessions
        /\ (ret'.op = "manually_switch_context"
            /\ ret'.session_id \in DOMAIN active_sessions
            /\ ret'.new_role_id = active_sessions[ret'.session_id].current_role_id) =>
               (ret'.error = None /\ active_sessions' = active_sessions)
      ]_vars

\* C5 witness: a manual switch to the role a session already has, on a session
\* with a history
C5_Witness ==
    /\ ret.op = "manually_switch_context"
    /\ ret.error = None
    /\ ~ret.switched
    /\ ret.session_id \in DOMAIN active_sessions
    /\ active_sessions[ret.session_id].current_role_id = ret.new_role_id
    /\ active_sessions[ret.session_id].history # <<>>

\* C6: with the default roles registered and a session on ceo-advisor, the query
\* "What's our profit and loss this quarter?" scores cfo-advisor 3 (1 + bonus 2)
\* and ceo-advisor 0, and the session switches to cfo-advisor with the reason
\* "Detected triggers for a different role" and one event appended.
C6_ProfitAndLossScenario ==
    [][ \A s \in DOMAIN active_sessions :
          ( /\ role_triggers = RegisterAll(<<>>, InitialRoles(DEFAULT_ROLES))
            /\ active_sessions[s].current_role_id = "ceo-advisor"
            /\ ret'.op \in {"process_begin", "process"}
            /\ ret'.op = "process" => ret'.stage = "begin"
            /\ ret'.session_id = s
            /\ ret'.query = "pnl"
            /\ ret'.force_role_id = None ) =>
          ( /\ detect_triggers(role_triggers,
                   <<"What", "s", "our", "profit", "and", "loss", "this", "quarter">>)
                 = [raised |-> FALSE, matches |-> << <<"cfo-advisor", 3>> >>]
            /\ ret'.op = "process_begin"
            /\ active_sessions'[s].current_role_id = "cfo-advisor"
            /\ active_sessions'[s].last_switch_reason =
                   "Detected triggers for a different role"
            /\ active_sessions'[s].history =
                   Append(active_sessions[s].history,
                          [timestamp |-> "now", from_role_id |-> "ceo-advisor",
                           to_role_id |-> "cfo-advisor",
                           reason |-> "Detected triggers for a different role",
                           query |-> "pnl"]) )
      ]_vars

\* C6 witness: the scenario has run on a session of the default index
C6_Witness ==
    /\ ret.op = "process_begin"
    /\ ret.query = "pnl"
    /\ ret.force_role_id = None
    /\ ret.current_role_id = "ceo-advisor"
    /\ role_triggers = RegisterAll(<<>>, InitialRoles(DEFAULT_ROLES))
    /\ active_sessions[ret.session_id].current_role_id = "cfo-advisor"
    /\ Len(active_sessions[ret.session_id].history) = 1

\* C7: the current role of a session that exists changes only by
\* process_query_with_context_switching or manually_switch_context on that
\* session; no other operation changes it.
C7_RoleChangesOnlyBySwitch ==
    [][ \A s \in (DOMAIN active_sessions) \cap (DOMAIN active_sessions') :
          active_sessions'[s].current_role_id # active_sessions[s].current_role_id =>
              /\ ret'.op \in {"process_begin", "manually_switch_context"}
              /\ ret'.session_id = s
      ]_vars

\* C8: the history of a session is append-only: across every step in which the
\* session exists before and after, the earlier history is a prefix of the later.
C8_HistoryAppendOnly ==
    [][ \A s \in (DOMAIN active_sessions) \cap (DOMAIN active_sessions') :
          LET h == active_sessions[s].history
              g == active_sessions'[s].history
          IN  Len(h) <= Len(g) /\ SubSeq(g, 1, Len(h)) = h
      ]_vars

C10_CreatedSession ==
    (ret.op = "create_session" /\ RoleExists(roles, ret.role_id)) =>
        /\ ret.error = None
        /\ ret.session_id \in DOMAIN active_sessions
        /\ active_sessions[ret.session_id] =
               [current_role_id |-> ret.role_id, history |-> <<>>,
                last_switch_reason |-> "Initial role selection"]

\* C10 witness: a session has been created
C10_Witness ==
    /\ ret.op = "create_session"
    /\ ret.error = None
    /\ ret.session_id \in DOMAIN active_sessions
    /\ \E s \in DOMAIN active_sessions : s # ret.session_id

\* C11: close_session returns true and removes the session when it exists,
\* and returns false leaving the table unchanged when it does not; no other
\* operation removes a session; on an id that is not in the table
\* process_query_with_context_switching, manually_switch_context and
\* get_context_switch_history fail with NotFound.
C11_CloseSession ==
    [][ /\ ret'.op = "close_session" =>
             IF ret'.session_id \in DOMAIN active_sessions
             THEN /\ ret'.result = TRUE
                  /\ DOMAIN active_sessions' = (DOMAIN active_sessions) \ {ret'.session_id}
                  /\ \A s \in DOMAIN active_sessions' :
                         active_sessions'[s] = active_sessions[s]
             ELSE /\ ret'.result = FALSE
                  /\ active_sessions' = active_sessions
        /\ \A s \in (DOMAIN active_sessions) \ (DOMAIN active_sessions') :
               ret'.op = "close_session" /\ ret'.session_id = s
        /\ ( /\ ret'.op \in {"process_begin", "process", "manually_switch_context",
                             "get_context_switch_history"}
             /\ ret'.op = "process" => ret'.stage = "begin"
             /\ ret'.session_id \notin DOMAIN active_sessions ) =>
               ret'.error = "NotFound"
      ]_vars

\* C11 witness: a session with a history was closed while another stays open
C11_Witness ==
    /\ ret.op = "close_session"
    /\ ret.result = TRUE
    /\ ret.session_id \notin DOMAIN active_sessions
    /\ DOMAIN active_sessions # {}

-----------------------------------------------------------------------------
(* Properties of the memory store (SpecMemory) *)

\* the number of memories in the store
CountMemories(mem) ==
    LET F[i \in 0..Len(mem)] == IF i = 0 THEN 0 ELSE F[i - 1] + Len(mem[i].v)
    IN  F[Len(mem)]

\* C12: storing a memory in role A with shared_with = [B] appends the memory to A's
\* partition and exactly one copy to B's partition, the copy having parent_memory_id
\* = the id of the memory stored in A and shared_with = []; every other partition
\* is unchanged, and the store grows by exactly two memories (the copy causes no
\* further copy).
C12_ShareOneLevel ==
    [][ ( /\ ret'.op = "store_memory"
          /\ Len(ret'.memory_create.shared_with) = 1
          /\ ret'.memory_create.shared_with[1] # ret'.memory_create.role_id ) =>
        LET A == ret'.memory_create.role_id
            B == ret'.memory_create.shared_with[1]
            pa == Partition(memories', A)
            pb == Partition(memories', B)
        IN  /\ Len(pa) = Len(Partition(memories, A)) + 1
            /\ Len(pb) = Len(Partition(memories, B)) + 1
            /\ SubSeq(pa, 1, Len(pa) - 1) = Partition(memories, A)
            /\ SubSeq(pb, 1, Len(pb) - 1) = Partition(memories, B)
            /\ LET memory == pa[Len(pa)]
                   copy == pb[Len(pb)]
               IN  /\ memory.id = ret'.id
                   /\ memory.role_id = A
                   /\ memory.shared_with = <<B>>
                   /\ copy.parent_memory_id = memory.id
                   /\ copy.shared_with = <<>>
                   /\ copy.role_id = B
                   /\ copy.id # memory.id
                   /\ [copy EXCEPT !.id = memory.id, !.role_id = A,
                                   !.shared_with = memory.shared_with,
                                   !.parent_memory_id = memory.parent_memory_id] = memory
            /\ \A r \in (Keys(memories) \cup Keys(memories')) \ {A, B} :
                   Partition(memories', r) = Partition(memories, r)
            /\ CountMemories(memories') = CountMemories(memories) + 2
      ]_vars

\* C12 witness: a memory was shared while a third role holds memories
C12_Witness ==
    /\ ret.op = "store_memory"
    /\ ret.memory_create.shared_with = <<"analyst">>
    /\ Partition(memories, "junior") # <<>>
    /\ Partition(memories, "analyst")[Len(Partition(memories, "analyst"))].parent_memory_id
           = ret.id

\* the memories of a list, as a set
Range(seq) == {seq[i] : i \in DOMAIN seq}

\* the access policy of a child role, on one memory of its parent
PassesPolicy(role, m) ==
    /\ role.memory_access_level = "standard" => m.type = "knowledge"
    /\ role.memory_access_level = "elevated" => m.type \in {"knowledge", "user"}
    /\ role.memory_categories # <<>> =>
           (m.category = None \/ InSeq(m.category, role.memory_categories))

\* the filters of the last get_memories_by_role_id call, on one memory
PassesFilters(m) ==
    /\ ret.memory_type # None => m.type = ret.memory_type
    /\ ret.category # None => m.category = ret.category
    /\ ret.tags # <<>> => AnyTag(ret.tags, m)
    /\ ~ret.include_shared => m.parent_memory_id = NoMemory

\* C13: every memory of the parent that get_memories_by_role_id returns to an
\* inheriting child satisfies the child's access policy (standard: knowledge only;
\* elevated: knowledge and user; admin: every type; with memory_categories declared,
\* a category that is set must be in the list), and every valid memory of the parent
\* that satisfies the policy and the call's filters is returned.
C13_AccessPolicy ==
    ( /\ ret.op = "get_memories_by_role_id"
      /\ ret.error = None
      /\ ret.role.id # None
      /\ ret.role.parent_role_id # ret.role_id ) =>
        /\ \A m \in Range(ret.result) :
               m.role_id # ret.role_id =>
                   /\ ret.include_inherited /\ ret.role.inherit_memories
                   /\ m.role_id = ret.role.parent_role_id
                   /\ PassesPolicy(ret.role, m)
        /\ (ret.include_inherited /\ ret.role.inherit_memories
            /\ ret.role.parent_role_id # None) =>
               \A m \in Range(Partition(memories, ret.role.parent_role_id)) :
                   (PassesPolicy(ret.role, m) /\ PassesFilters(m)) =>
                       m \in Range(ret.result)

\* C13 witness: a standard child received a knowledge memory of its parent while
\* the parent also holds a memory of another type
C13_Witness ==
    /\ ret.op = "get_memories_by_role_id"
    /\ ret.role.id # None
    /\ ret.role.memory_access_level = "standard"
    /\ \E m \in Range(ret.result) : m.role_id = ret.role.parent_role_id
    /\ \E m \in Range(Partition(memories, ret.role.parent_role_id)) :
           m.type # "knowledge"

\* no memory of the list has expired at time t
AllValid(ms, t) == \A m \in Range(ms) : m.expires_at > t

\* C14: every read path (get_memories_by_role_id, get_relevant_memories,
\* get_related_roles) filters out the memories whose expires_at has passed and
\* writes the filtered list back: a read returns no expired memory, and after it
\* the partitions it is about hold no expired memory.
C14_ReadsPurgeExpired ==
    [][ /\ (ret'.op = "get_memories_by_role_id" /\ ret'.error = None) =>
               /\ AllValid(ret'.result, now)
               /\ AllValid(Partition(memories', ret'.role_id), now)
        /\ (ret'.op = "get_relevant_memories" /\ ret'.embedding # <<>>) =>
               /\ AllValid(ret'.result, now)
               /\ \A r \in Range(RolesToSearch(memories, ret'.role_id, ret'.cross_role,
                                               ret'.related_role_ids)) :
                      AllValid(Partition(memories', r), now)
        /\ ret'.op = "get_related_roles" =>
               AllValid(Partition(memories', ret'.role_id), now)
      ]_vars

\* every memory of the store
AllMemories(mem) == UNION {Range(mem[i].v) : i \in DOMAIN mem}

\* C15: a memory of type t stored at time T has expires_at = T + TTL(t), with
\* TTL(session) = 3600 s, TTL(user) = 30 days, TTL(knowledge) = 365 days (its share
\* copies carry the same expires_at), and no later operation changes the
\* expires_at of a stored memory.
C15_ExpiresAt ==
    [][ /\ ret'.op = "store_memory" =>
               \A m \in AllMemories(memories') :
                   (m.id = ret'.id \/ m.parent_memory_id = ret'.id) =>
                       /\ m.type = ret'.memory_create.type
                       /\ m.created_at = now
                       /\ m.type = "session" => m.expires_at = now + 3600
                       /\ m.type = "user" => m.expires_at = now + 30 * 24 * 3600
                       /\ m.type = "knowledge" => m.expires_at = now + 365 * 24 * 3600
        /\ \A m \in AllMemories(memories) : \A n \in AllMemories(memories') :
               n.id = m.id => n.expires_at = m.expires_at
      ]_vars

\* C15 witness: a user memory stored at time 3600 is in the store next to its
\* share copy
C15_Witness ==
    \E m \in AllMemories(memories) : \E n \in AllMemories(memories) :
        /\ m.type = "user"
        /\ m.created_at = 3600
        /\ m.expires_at = 2595600
        /\ n.parent_memory_id = m.id
        /\ n.expires_at = m.expires_at

\* C16: get_memories_by_role_id with include_inherited continues up the
\* inheritance chain: for child -> parent -> grandparent with inherit_memories set
\* on child and parent, the valid memories of the grandparent that pass the
\* parent's and the child's access filters (and the call's filters) are in the
\* child's result.
C16_GrandparentIncluded ==
    ( /\ ret.op = "get_memories_by_role_id"
      /\ ret.error = None
      /\ ret.include_inherited
      /\ ret.role.id # None
      /\ ret.role.inherit_memories
      /\ ret.role.parent_role_id # None ) =>
        LET parent == RoleOf(roles, ret.role.parent_role_id)
        IN  ( /\ parent.id # None
              /\ parent.inherit_memories
              /\ parent.parent_role_id # None
              /\ parent.parent_role_id \notin {ret.role_id, parent.id} ) =>
                \A m \in Range(Partition(memories, parent.parent_role_id)) :
                    ( /\ m.expires_at > now
                      /\ PassesPolicy(parent, m)
                      /\ PassesPolicy(ret.role, m)
                      /\ PassesFilters(m) ) => m \in Range(ret.result)

\* C17: get_memories_by_role_id terminates for every role graph, also when the
\* parent_role_id relation is cyclic with inherit_memories set on every role of the
\* cycle: the call returns a list and never exhausts the call stack.
C17_GetByRoleTerminates ==
    ret.op = "get_memories_by_role_id" => ret.error = None

\* C17 witness: a call for a role on a cycle of inheriting roles returned, with a
\* memory of the parent in its result
C17_Witness ==
    /\ ret.op = "get_memories_by_role_id"
    /\ ret.error = None
    /\ ret.include_inherited
    /\ ret.role.id # None
    /\ ret.role.inherit_memories
    /\ LET parent == RoleOf(roles, ret.role.parent_role_id)
       IN  /\ parent.id # None
           /\ parent.inherit_memories
           /\ parent.parent_role_id = ret.role_id
    /\ \E m \in Range(ret.result) : m.role_id = ret.role.parent_role_id

-----------------------------------------------------------------------------
(* Properties of the walks over the role graph (SpecChain) *)

\* C18: get_role_inheritance_chain(role_id) terminates on every role graph and
\* returns each role at most once: the chain starts with role_id, continues to the
\* parent only from a role whose inherit_memories is true, and stops as soon as a
\* role id repeats or the chain runs out (so a cycle X <-> Y gives at most [X, Y]).
C18_InheritanceChain ==
    ret.op = "get_role_inheritance_chain" =>
        LET chain == ret.result
            ids == {chain[i].id : i \in DOMAIN chain}
        IN  /\ ret.error = None
            /\ \A i \in DOMAIN chain : \A j \in DOMAIN chain :
                   chain[i].id = chain[j].id => i = j
            /\ \A i \in DOMAIN chain : chain[i] = RoleOf(roles, chain[i].id)
            /\ Has(roles, ret.role_id) => (chain # <<>> /\ chain[1].id = ret.role_id)
            /\ ~Has(roles, ret.role_id) => chain = <<>>
            /\ \A i \in 1..(Len(chain) - 1) :
                   /\ chain[i].inherit_memories
                   /\ chain[i + 1].id = chain[i].parent_role_id
            /\ chain # <<>> =>
                   LET last == chain[Len(chain)]
                   IN  \/ ~last.inherit_memories
                       \/ last.parent_role_id = None
                       \/ ~Has(roles, last.parent_role_id)
                       \/ last.parent_role_id \in ids

-----------------------------------------------------------------------------
(* Properties of the relevance search (SpecMemory) *)

\* the valid memories of the given partitions that carry an embedding and satisfy
\* the category, tag and include_shared filters of the last get_relevant_memories
Candidates(role_ids) ==
    {m \in UNION {Range(Partition(memories, r)) : r \in role_ids} :
        /\ m.expires_at > now
        /\ m.embedding # <<>>
        /\ ret.category # None => m.category = ret.category
        /\ ret.tags # <<>> => AnyTag(ret.tags, m)
        /\ ~ret.include_shared => m.parent_memory_id = NoMemory}

\* the roles the last get_relevant_memories is to draw from
SearchedRoles ==
    IF ret.cross_role THEN Keys(memories)
    ELSE IF ret.related_role_ids # <<>> THEN Range(ret.related_role_ids)
    ELSE {ret.role_id}

\* C19: get_relevant_memories draws its candidates from every partition when
\* cross_role is set, from exactly the listed roles when related_role_ids is
\* non-empty, and otherwise from role_id only; with cross_role false and no
\* related_role_ids every returned memory belongs to the partition of role_id.
C19_CandidateRoles ==
    (ret.op = "get_relevant_memories" /\ ret.embedding # <<>>) =>
        /\ Range(ret.result) \subseteq Candidates(SearchedRoles)
        /\ (ret.limit >= Cardinality(Candidates(SearchedRoles))) =>
               Range(ret.result) = Candidates(SearchedRoles)
        /\ (~ret.cross_role /\ ret.related_role_ids = <<>>) =>
               \A m \in Range(ret.result) :
                   /\ m.role_id = ret.role_id
                   /\ m \in Range(Partition(memories, ret.role_id))

\* C19 witness: a search over two listed roles returned memories of both while the
\* requested role holds a memory of its own
C19_Witness ==
    /\ ret.op = "get_relevant_memories"
    /\ ret.related_role_ids = <<"cfo-advisor", "analyst">>
    /\ \E m \in Range(ret.result) : m.role_id = "cfo-advisor"
    /\ \E m \in Range(ret.result) : m.role_id = "analyst"
    /\ \E m \in Range(Partition(memories, ret.role_id)) : m.embedding # <<>>

\* the score of a memory in the last get_relevant_memories
ScoreOf(m) == AdjustedScore(m, ret.embedding, ret.tags, now)

C21_HighBeforeLow ==
    ret.op = "get_relevant_memories" =>
        \A i, j \in DOMAIN ret.result :
            (/\ ret.result[i].embedding = ret.result[j].embedding
             /\ ret.result[i].created_at = ret.result[j].created_at
             /\ ret.result[i].importance = "high"
             /\ ret.result[j].importance = "low") => i < j

\* C22: when the embedding provider fails, create_embedding returns the empty
\* vector, and a relevance search with the empty embedding returns no memory,
\* raises nothing and leaves every partition as it was (nothing is purged).
C22_EmptyEmbedding ==
    [][/\ (ret'.op = "semantic_search" /\ ret'.response.raised) =>
            /\ ret'.embedding = <<>>
            /\ ret'.error = None
            /\ ret'.result = <<>>
            /\ memories' = memories
       /\ (ret'.op = "get_relevant_memories" /\ ret'.embedding = <<>>) =>
            /\ ret'.result = <<>>
            /\ memories' = memories]_vars

\* a search whose provider failed, on a partition holding an expired memory
C22_Witness ==
    /\ ret.op = "semantic_search"
    /\ ret.response.raised
    /\ \E i \in DOMAIN Partition(memories, ret.role_id) :
           Partition(memories, ret.role_id)[i].expires_at <= now

-----------------------------------------------------------------------------
(* Properties of clear_memories_by_role_id (SpecClear) *)

\* m matches every filter that was supplied (and one was)
MatchesFilters(m, memory_type, category, tags) ==
    /\ memory_type # None \/ category # None \/ tags # <<>>
    /\ memory_type # None => m.type = memory_type
    /\ category # None => m.category = category
    /\ tags # <<>> => AnyTag(tags, m)

\* the partition without the memories that match the filters
WithoutMatching(ms, memory_type, category, tags) ==
    SelectSeq(ms, LAMBDA m : ~MatchesFilters(m, memory_type, category, tags))

\* C23: clear_memories_by_role_id removes from the role's partition exactly the
\* memories that match the supplied filters (type, category, any tag): a memory
\* that fails one of them is kept, filters that match nothing remove nothing,
\* and the call returns true, also for a role without a partition.
C23_ClearExactly ==
    [][(ret'.op = "clear_memories_by_role_id" /\ ~ret'.shared_only) =>
            /\ ret'.result = TRUE
            /\ Partition(memories', ret'.role_id) =
                   WithoutMatching(Partition(memories, ret'.role_id),
                                   ret'.memory_type, ret'.category, ret'.tags)
            /\ ~Has(memories, ret'.role_id) => memories' = memories]_vars

\* C24: with shared_only = true, clear_memories_by_role_id deletes share copies
\* only: whatever other filters are supplied, a memory of the partition whose
\* parent_memory_id is unset is still there after the call.
C24_SharedOnlyKeepsOriginals ==
    [][(ret'.op = "clear_memories_by_role_id" /\ ret'.shared_only) =>
            \A i \in DOMAIN Partition(memories, ret'.role_id) :
                Partition(memories, ret'.role_id)[i].parent_memory_id = NoMemory =>
                    InSeq(Partition(memories, ret'.role_id)[i],
                          Partition(memories', ret'.role_id))]_vars

\* a memory with this id is stored in some partition
Stored(mem, id) ==
    \E i \in DOMAIN mem : \E j \in DOMAIN mem[i].v : mem[i].v[j].id = id

\* C25: share copies are independent of their origin: clear_memories_by_role_id(r)
\* changes the partition of r only, so clearing an origin leaves its copies in
\* the other partitions and clearing a copy leaves the origin.
C25_ClearOnePartition ==
    [][ret'.op = "clear_memories_by_role_id" =>
            /\ Keys(memories') = Keys(memories)
            /\ \A k \in Keys(memories) :
                   k # ret'.role_id => Get(memories', k) = Get(memories, k)]_vars

\* after a clear: a copy whose origin is gone, and an origin whose copy is gone
C25_Witness ==
    /\ ret.op = "clear_memories_by_role_id"
    /\ \E i \in DOMAIN memories : \E j \in DOMAIN memories[i].v :
           /\ memories[i].v[j].parent_memory_id # NoMemory
           /\ ~Stored(memories, memories[i].v[j].parent_memory_id)
    /\ \E i \in DOMAIN memories : \E j \in DOMAIN memories[i].v :
           /\ memories[i].v[j].shared_with # <<>>
           /\ ~Stored(memories, memories[i].v[j].id + 1)

-----------------------------------------------------------------------------
(* Properties of get_related_roles (SpecMemory) *)

\* the roles related to role_id by inheritance or by sharing, role_id excluded
RelatedTo(mem, rs, role_id) ==
    LET role == RoleOf(rs, role_id)
        parent == IF role.inherit_memories /\ role.parent_role_id # None
                  THEN {role.parent_role_id} ELSE {}
        children == {r \in Keys(rs) : /\ Get(rs, r).parent_role_id = role_id
                                      /\ Get(rs, r).inherit_memories}
        shared_out == {r \in MemRoleIds :
                          \E i \in DOMAIN Partition(mem, role_id) :
                              InSeq(r, Partition(mem, role_id)[i].shared_with)}
        shared_in == {r \in Keys(mem) :
                         \E i \in DOMAIN Get(mem, r) :
                             InSeq(role_id, Get(mem, r)[i].shared_with)}
    IN  (parent \cup children \cup shared_out \cup shared_in) \ {role_id}

\* C26: get_related_roles(role_id) returns exactly the parent (if role_id
\* inherits), the other roles that inherit from role_id, the roles its own
\* memories are shared with and the roles that share a memory with it, never
\* role_id itself.
C26_RelatedRoles ==
    (ret.op = "get_related_roles" /\ Has(roles, ret.role_id)) =>
        /\ ret.error = None
        /\ ret.result = RelatedTo(memories, roles, ret.role_id)
        /\ ret.role_id \notin ret.result

-----------------------------------------------------------------------------
(* Properties of the trigger index (SpecTrigger) *)

\* the positions of role.domains whose domain has a default pattern list
KnownDomains(role) ==
    {d \in DOMAIN role.domains : Lower(role.domains[d]) \in DOMAIN default_domain_triggers}

\* the positions of the entries of one source in a trigger list
OfSource(triggers, kind) == {i \in DOMAIN triggers : triggers[i].source.kind = kind}

\* the name entry and the custom entries of a registration: one priority-2 name
\* entry after the domain entries, then one custom entry per supplied pattern,
\* in supplied order, with priorities 3, 4, 5, ...
NameAndCustomEntries(triggers, role, custom_triggers) ==
    LET n == Cardinality(OfSource(triggers, "domain"))
    IN  /\ OfSource(triggers, "domain") = 1..n
        /\ \A i \in 1..n : triggers[i].priority = 1
        /\ OfSource(triggers, "name") = {n + 1}
        /\ triggers[n + 1].priority = 2
        /\ triggers[n + 1].pattern.kws = {LowerSeq(role.name)}
        /\ Len(triggers) = n + 1 + Len(custom_triggers)
        /\ \A j \in DOMAIN custom_triggers :
               /\ triggers[n + 1 + j].source.kind = "custom"
               /\ triggers[n + 1 + j].pattern = custom_triggers[j]
               /\ triggers[n + 1 + j].priority = 2 + j

\* C27 as stated: after register_role_triggers(role, custom_triggers) the role's
\* trigger set is exactly one priority-1 domain entry per configured domain that
\* has a default pattern list, one priority-2 name entry and one custom entry
\* per supplied pattern with priorities 3, 4, 5, ... in supplied order.
C27_OneEntryPerDomain ==
    ret.op = "register_role_triggers" =>
        LET triggers == get_role_triggers(role_triggers, ret.role_id)
        IN  /\ Cardinality(OfSource(triggers, "domain")) =
                   Cardinality(KnownDomains(ret.role))
            /\ NameAndCustomEntries(triggers, ret.role, ret.custom_triggers)

\* C27, amended: the domain entries are one per default pattern of every
\* configured domain that has a default pattern list (two per such domain), in
\* the order of role.domains and of the list; the name and custom entries are
\* as stated, and no trigger of an earlier registration remains.
C27_OneEntryPerDomainPattern ==
    ret.op = "register_role_triggers" =>
        LET triggers == get_role_triggers(role_triggers, ret.role_id)
            slots == {<<d, p>> \in KnownDomains(ret.role) \X (1..2) :
                         p \in DOMAIN default_domain_triggers[Lower(ret.role.domains[d])]}
            Before(s) == Cardinality({x \in slots :
                             x[1] < s[1] \/ (x[1] = s[1] /\ x[2] < s[2])})
        IN  /\ Cardinality(OfSource(triggers, "domain")) = Cardinality(slots)
            /\ \A s \in slots :
                   LET t == triggers[Before(s) + 1]
                       domain_lower == Lower(ret.role.domains[s[1]])
                   IN  /\ t.source = [kind |-> "domain", domain |-> domain_lower]
                       /\ t.pattern = default_domain_triggers[domain_lower][s[2]]
            /\ NameAndCustomEntries(triggers, ret.role, ret.custom_triggers)

\* a registration with two custom patterns of a role with two known domains
C27_Witness ==
    /\ ret.op = "register_role_triggers"
    /\ Cardinality(KnownDomains(ret.role)) = 2
    /\ Len(ret.custom_triggers) = 2
    /\ Len(get_role_triggers(role_triggers, ret.role_id)) = 7

\* the role has a custom trigger with this pattern
HasCustomTrigger(rt, role_id, trigger_pattern) ==
    \E i \in DOMAIN get_role_triggers(rt, role_id) :
        /\ get_role_triggers(rt, role_id)[i].pattern = trigger_pattern
        /\ get_role_triggers(rt, role_id)[i].source.kind = "custom"

\* C28: a custom trigger that add_custom_trigger has just added to a role is
\* still in the role's trigger set after the next operation, whatever it is
\* (re-registration of the role included), unless that operation is
\* remove_custom_trigger for this trigger.
C28_CustomTriggerPersists ==
    [][(/\ ret.op = "add_custom_trigger"
        /\ ret.result
        /\ ~(/\ ret'.op = "remove_custom_trigger"
              /\ ret'.role_id = ret.role_id
              /\ ret'.pattern = ret.pattern)) =>
            HasCustomTrigger(role_triggers', ret.role_id, ret.pattern)]_vars

\* C29: a registration call that is given an invalid regular expression
\* (register_role_triggers with custom_triggers, or add_custom_trigger) does not
\* add the pattern and leaves the trigger index exactly as it was, and
\* add_custom_trigger reports the failure; so the index never holds an invalid
\* pattern and detect_triggers never fails on one.
C29_InvalidPatternRejected ==
    [][/\ (ret'.op = "add_custom_trigger" /\ ~ret'.pattern.valid) =>
            /\ ret'.result = FALSE
            /\ role_triggers' = role_triggers
       /\ (/\ ret'.op = "register_role_triggers"
           /\ \E j \in DOMAIN ret'.custom_triggers : ~ret'.custom_triggers[j].valid) =>
            role_triggers' = role_triggers
       /\ ~HasBadPattern(role_triggers')
       /\ ret'.op = "detect_triggers" => ~ret'.raised]_vars

-----------------------------------------------------------------------------
(* Properties of the system prompt (SpecPrompt) *)

RECURSIVE IsSubseq(_, _)
\* the tokens of a occur in b, in the order of a
IsSubseq(a, b) ==
    IF a = <<>> THEN TRUE
    ELSE IF b = <<>> THEN FALSE
    ELSE IF Head(a) = Head(b) THEN IsSubseq(Tail(a), Tail(b))
    ELSE IsSubseq(a, Tail(b))

\* text a stands in text b from position j on
OccursAt(a, b, j) == j + Len(a) - 1 <= Len(b) /\ SubSeq(b, j, j + Len(a) - 1) = a

\* C30: when a switch occurs and the caller supplied custom instructions, the
\* text handed to the completion call contains the transition note (the names
\* and descriptions of the old and the new role) before the caller's custom
\* instructions.
C30_NoteBeforeInstructions ==
    (/\ ret.op = "process_embedded"
     /\ calls[ret.call].context_switch
     /\ calls[ret.call].caller_instructions # <<>>) =>
        \E j \in DOMAIN ret.system_prompt :
            /\ OccursAt(calls[ret.call].caller_instructions, ret.system_prompt, j)
            /\ IsSubseq(context_switch_info(Get(roles, calls[ret.call].current_role_id),
                                            Get(roles, calls[ret.call].new_role_id)),
                        SubSeq(ret.system_prompt, 1, j - 1))

\* a switch to the role whose description has two paragraphs, with instructions
\* of two paragraphs
C30_Witness ==
    /\ ret.op = "process_embedded"
    /\ calls[ret.call].context_switch
    /\ calls[ret.call].new_role_id = "counsel"
    /\ InSeq(PARA, calls[ret.call].caller_instructions)
-----------------------------------------------------------------------------
(* Properties of the query pipeline under role deletion (SpecDelete) *)

\* the step ends the call c: its caller gets a result or an error
Finished(c) == calls[c].pc # "idle" /\ calls'[c].pc = "idle"

\* the step returns a result and appends one session memory to the partition of
\* the role the result reports, and changes no other partition
WrittenBack(c) ==
    /\ ret'.op = "process"
    /\ ret'.error = None
    /\ LET r == ret'.role_id
           before == Partition(memories, r)
           after == Partition(memories', r)
       IN  /\ Len(after) = Len(before) + 1
           /\ SubSeq(after, 1, Len(before)) = before
           /\ after[Len(after)].type = "session"
           /\ after[Len(after)].role_id = r
           /\ TotalMemories(memories') = TotalMemories(memories) + 1
           /\ \A k \in Keys(memories) \ {r} : Partition(memories', k) = Partition(memories, k)

C33_ErrorLeavesSession ==
    [][\A c \in CallIds :
          (Finished(c) /\ ret'.op = "process" /\ ret'.error # None
                /\ calls[c].context_switch
                /\ calls[c].session_id \in DOMAIN active_sessions')
          => LET call == calls[c]
                 session == active_sessions'[call.session_id]
             IN  ~ /\ session.current_role_id = call.new_role_id
                   /\ session.history # <<>>
                   /\ session.history[Len(session.history)] =
                          SwitchEvent(call.current_role_id, call.new_role_id,
                                      call.switch_reason, call.query)]_vars

\* C36: after delete_role succeeds, the partition of the deleted role holds no
\* memories.
C36_DeleteClearsPartition ==
    (ret.op = "delete_role" /\ ret.error = None) =>
        Partition(memories, ret.role_id) = <<>>

-----------------------------------------------------------------------------
(* Properties of the session history under interleaved requests (Spec) *)

\* C32: the history of every session is a chain: no event goes from a role to
\* itself, every event starts at the role the one before it ended at, and the
\* last event ends at the session's current role.
C32_HistoryIsChain ==
    \A s \in DOMAIN active_sessions :
        LET h == active_sessions[s].history
        IN  /\ \A i \in 1..Len(h) : h[i].from_role_id # h[i].to_role_id
            /\ \A i \in 2..Len(h) : h[i].from_role_id = h[i - 1].to_role_id
            /\ Len(h) > 0 => h[Len(h)].to_role_id = active_sessions[s].current_role_id

\* a call switched the session and, while it was suspended at a provider, a manual
\* switch moved the same session on
C32_Witness ==
    \E c \in CallIds :
        /\ calls[c].pc # "idle"
        /\ calls[c].context_switch
        /\ calls[c].session_id \in DOMAIN active_sessions
        /\ LET h == active_sessions[calls[c].session_id].history
           IN  /\ Len(h) = 2
               /\ h[1].query = calls[c].query
               /\ h[2].query = None
               /\ h[2].from_role_id = calls[c].new_role_id

-----------------------------------------------------------------------------
(* Properties of the decision applied twice (SpecTrigger) *)

\* the current role of a session after the decision for query is applied to a
\* session whose current role is current_role_id: the switch is applied when the
\* decision asks for one and both roles are registered
RoleAfterDecision(current_role_id, query, force_role_id) ==
    LET d == DecideRole(role_triggers, current_role_id, QueryText[query], force_role_id)
    IN  IF ~d.raised /\ d.context_switch /\ RoleExists(roles, current_role_id)
           /\ RoleExists(roles, d.new_role_id)
        THEN d.new_role_id
        ELSE current_role_id

\* the decision for query switches a session whose current role is current_role_id
SwitchesFrom(current_role_id, query, force_role_id) ==
    LET d == DecideRole(role_triggers, current_role_id, QueryText[query], force_role_id)
    IN  ~d.raised /\ d.context_switch /\ RoleExists(roles, current_role_id)
        /\ RoleExists(roles, d.new_role_id)

ForcedIds == {None, "cfo-advisor", "tax-advisor"}

\* C34: with the trigger index unchanged, the decision applied a second time with
\* the same query to the session the first application left does not switch.
C34_RepeatedQueryStable ==
    \A q \in Queries, r \in Keys(roles), f \in ForcedIds :
        ~SwitchesFrom(RoleAfterDecision(r, q, f), q, f)

\* the first application switches on detected triggers, away from a role that
\* matches the query itself
C34_Witness ==
    \E q \in Queries, r \in Keys(roles) :
        /\ SwitchesFrom(r, q, None)
        /\ CurrentRoleScore(detect_triggers(role_triggers, QueryText[q]).matches, r) > 0

-----------------------------------------------------------------------------
(* Properties of the memory store under interleaved requests (SpecStore) *)

\* C35: a step other than clear_memories_by_role_id keeps, in its partition,
\* every memory that has not expired at the time of the step.
C35_OnlyClearRemoves ==
    [][ret'.op # "clear_memories_by_role_id" =>
          \A k \in Keys(memories) :
              \A i \in 1..Len(Partition(memories, k)) :
                  Partition(memories, k)[i].expires_at > now' =>
                      InSeq(Partition(memories, k)[i], Partition(memories', k))]_vars

\* a call has completed after time passed: an expired memory is gone from the
\* partition it wrote to, and a memory stored by another request while the call
\* was suspended is still there next to the exchange
C35_Witness ==
    /\ ret.op = "process"
    /\ ret.error = None
    /\ now > 0
    /\ Len(Partition(memories, ret.role_id)) >= 2
    /\ Len(Partition(memories, ret.role_id)) < next_id - 1
    /\ \A i \in 1..Len(Partition(memories, ret.role_id)) :
           Partition(memories, ret.role_id)[i].expires_at > now

-----------------------------------------------------------------------------
(* Properties of the access level under role updates (SpecAccess) *)

\* C37: a read for an inheriting role returns a session memory of another
\* partition only when the role's memory_access_level is admin, and a user memory
\* of another partition only when it is elevated or admin.
C37_AccessLevelExcludes ==
    (ret.op = "get_memories_by_role_id" /\ ret.error = None /\ ret.role.id # None) =>
        \A i \in DOMAIN ret.result :
            LET m == ret.result[i]
            IN  m.role_id # ret.role_id =>
                    /\ m.type = "session" => ret.role.memory_access_level = "admin"
                    /\ m.type = "user" =>
                           ret.role.memory_access_level \in {"elevated", "admin"}

-----------------------------------------------------------------------------
(* Properties of share_memory (SpecShare) *)

\* the memories of partition k after the step that were not there before it
Added(k) ==
    SelectSeq(Partition(memories', k), LAMBDA m : ~InSeq(m, Partition(memories, k)))

\* C38: share_memory of memory m of role A adds, to every target role that m was
\* not yet shared with, exactly one copy whose parent_memory_id is the id of m,
\* and adds nothing to the partition of A or of a role m was already shared with.
C38_ShareAddsOneCopy ==
    [][(ret'.op = "share_memory" /\ ret'.error = None) =>
          LET A == ret'.role_id
              own == Partition(memories, A)
              m == own[CHOOSE i \in DOMAIN own : own[i].id = ret'.memory_id]
          IN  \A k \in Keys(memories') :
                  IF k # A /\ InSeq(k, ret'.target_role_ids) /\ ~InSeq(k, m.shared_with)
                  THEN /\ Len(Added(k)) = 1
                       /\ Added(k)[1].parent_memory_id = m.id
                  ELSE Len(Partition(memories', k)) = Len(Partition(memories, k))]_vars

-----------------------------------------------------------------------------
(* Properties of the parent relation (SpecParent) *)

RECURSIVE Ancestors(_, _, _)
\* the ids reached from role_id by following parent_role_id at most n times
Ancestors(rs, role_id, n) ==
    IF n = 0 \/ ~Has(rs, role_id) \/ Get(rs, role_id).parent_role_id = None THEN {}
    ELSE {Get(rs, role_id).parent_role_id}
         \cup Ancestors(rs, Get(rs, role_id).parent_role_id, n - 1)

Acyclic(rs) == \A role_id \in Keys(rs) : role_id \notin Ancestors(rs, role_id, Len(rs))

\* C39: the parent_role_id relation of the registry stays acyclic under
\* set_parent_role, remove_parent_role and update_memory_access.
C39_ParentAcyclic == Acyclic(roles)

\* set_parent_role was asked to put a role under one of its own descendants (or
\* under itself) and did not do it
C39_Witness ==
    /\ ret.op = "set_parent_role"
    /\ Has(roles, ret.role_id) /\ ~Get(roles, ret.role_id).is_default
    /\ Has(roles, ret.parent_id)
    /\ ret.role_id \in {ret.parent_id} \cup Ancestors(roles, ret.parent_id, Len(roles))
    /\ ret.error # None
    /\ Get(roles, ret.role_id).parent_role_id # ret.parent_id

-----------------------------------------------------------------------------
(* Properties of get_related_roles on registered roles (SpecMemory) *)

\* C40: get_related_roles of a registered role A returns a set, and a registered
\* role B is in it exactly when A is in the set get_related_roles returns for B.
C40_RelatedSymmetric ==
    (ret.op = "get_related_roles" /\ Has(roles, ret.role_id)) =>
        /\ ret.error = None
        /\ \A B \in Keys(roles) :
               LET related_B == get_related_roles(memories, roles, B)
               IN  /\ related_B.error = None
                   /\ B \in ret.result <=> ret.role_id \in related_B.result

====
